---------------------------- MODULE Spec2Model ----------------------------
(***************************************************************************)
(* QPerform: performance classification (performanceScoring.ts), monthly   *)
(* compliance aggregation and recommendation derivation (api.ts).          *)
(*                                                                         *)
(* Numbers.  A JavaScript number is modelled as a record                   *)
(* [nan |-> BOOLEAN, val |-> Int].  val is a fixed-point value with five   *)
(* decimals: the number x is held as x * 10^5, so the score 0.98 is 98000  *)
(* and the percentage 98.00 is 9800000.  Multiplying a score by the        *)
(* integer 100 is exact in this representation.  NaN is the value every    *)
(* comparison answers false to.                                            *)
(***************************************************************************)
EXTENDS Integers, Sequences, FiniteSets, TLC

VARIABLES
    prodScore,       \* argument prodScore of calculatePerformanceMetrics
    qaScore,         \* argument qaScore of calculatePerformanceMetrics
    metrics,         \* the PerformanceMetrics returned, NoMetrics before the call
    agentWeeksData,  \* argument agentWeeksData: Map<week_range, PerformanceData[]>
    agentEmail,      \* argument agentEmail
    actionLog,       \* argument actionLog: a sequence of ActionLog rows, or Undefined
    monthlyResults,  \* the AgentMonthlyResults returned, NoResults before the call
    recommendation,  \* the Recommendation returned, NoRecommendation before the call
    flagInput,       \* argument flag of normalizeFlag
    flagResult,      \* what normalizeFlag returned, NoFlagResult before the call
    appState,        \* App: 'welcome' | 'authenticating' | 'authorized' | 'denied'
    hooks,           \* useUserRole state of each instance: role, user, isLoading, isAuthorized
    pendingCalls,    \* authenticateUser calls in flight, each with its effect run's isMounted
    hookDeps,        \* shouldAuthenticate at the last run of the effect of App's useUserRole
    appDeps,         \* <<appState, isLoading, isAuthorized>> at the last run of App's effect
    viewDeps,        \* whether the effect of the dashboard's useUserRole has run since its mount
    clicks,          \* history: number of Enter Dashboard clicks so far
    lastAuth,        \* history: the authentication started for the latest click
    currentFilters,  \* the currentFilters prop of the mount render of UnderperformingView
    filters,         \* UnderperformingView: the selected filters
    loading,         \* UnderperformingView: loading
    error,           \* UnderperformingView: error, NoError for null
    displayed,       \* the filters rawData, groupedData and clientSummaryData were fetched for
    filterOptions,   \* UnderperformingView: filterOptions
    filtersFetch,    \* the fetchFilters call of the mount: pending, loaded or failed
    dataRequests,    \* loadData calls awaiting their three fetches
    requestsIssued,  \* history: number of loadData calls that reached their fetches
    lastSuccess,     \* history: the filters of the last loadData call that succeeded
    failure,         \* history: a fetch failed since the last user action, a request followed
    useMockData,     \* dataverseService: USE_MOCK_DATA, fixed by the build
    photoCache,      \* dataverseService: photoCache, a function from identifiers to data URLs
    photoCalls,      \* getEmployeePhoto calls awaiting the backend
    photoCallsStarted, \* history: number of getEmployeePhoto calls so far
    lastPhotoCall,   \* history: the getEmployeePhoto call started last
    firstStored,     \* history: per identifier, the photo first stored since the cache was emptied
    firstRecord,     \* the first record of an agent in groupedData: agent_name, agent_email
    listName,        \* the name of the agent in employeeList, Undef before it is derived
    gridName,        \* the agentName of the agent's grid row, Undef before it is rendered
    currentUser,     \* what getCurrentUser returned to authenticateUser: a UserProfile or NoUser
    authzResult,     \* what authenticateUser returned, NoAuthResult before the call
    popFilters,      \* FilterPopover: currentFilters, the filters state of UnderperformingView
    availableCategories, \* FilterPopover: availableCategories
    availableTasks,  \* FilterPopover: availableTasks
    loadingCategories, \* FilterPopover: loadingCategories
    loadingTasks,    \* FilterPopover: loadingTasks
    categoryFetches, \* fetchFilters calls of loadCategories in flight, with the filters of their render
    taskFetches,     \* fetchFilters calls of loadTasks in flight, with the filters of their render
    fetchesIssued,   \* history: number of fetchFilters calls of the popover so far
    categoriesFor,   \* history: the client availableCategories was fetched for
    tasksFor,        \* history: the client and category availableTasks was fetched for
    lastHandler,     \* history: the handler run last, its argument, and whether a task was set before it
    dialog,          \* TakeActionDialog: isOpen and the state of the form
    submission,      \* the handleSubmit run in progress or finished last: its values and position
    deleting,        \* a deleteAction call of handleDeleteExisting is in flight
    recommendationFetches, \* number of generateRecommendation calls in flight
    lastCheck,       \* history: the last reply of checkDuplicateAction and what it was asked for
    rawData,         \* UnderperformingView: rawData, the records loadData fetched
    rowAgent,        \* the agent whose row of the employee grid is looked at
    gridScore,       \* the Score of the Monthly Results cell of that row, NoScore before it is rendered
    dialogResults    \* monthlyResults of the Recommendations dialog for that row, NoResults before it is opened

scoringVars == <<prodScore, qaScore, metrics>>
complianceVars == <<agentWeeksData, agentEmail, actionLog, monthlyResults, recommendation>>
flagVars == <<flagInput, flagResult>>
authVars == <<appState, hooks, pendingCalls, hookDeps, appDeps, viewDeps, clicks, lastAuth>>
loadingVars == <<currentFilters, filters, loading, error, displayed, filterOptions,
                 filtersFetch, dataRequests, requestsIssued, lastSuccess, failure>>
photoVars == <<useMockData, photoCache, photoCalls, photoCallsStarted, lastPhotoCall,
               firstStored>>
nameVars == <<firstRecord, listName, gridName>>
authzVars == <<currentUser, authzResult>>
popoverVars == <<popFilters, availableCategories, availableTasks, loadingCategories, loadingTasks, categoryFetches, taskFetches, fetchesIssued, categoriesFor, tasksFor, lastHandler>>
dialogVars == <<dialog, submission, deleting, recommendationFetches, lastCheck>>
gridVars == <<rawData, rowAgent, gridScore, dialogResults>>
vars == <<scoringVars, complianceVars, flagVars, authVars, loadingVars, photoVars, nameVars, authzVars, popoverVars, dialogVars, gridVars>>

\* the variables outside each part
outsideScoring == <<complianceVars, flagVars, authVars, loadingVars, photoVars, nameVars, authzVars, popoverVars, dialogVars, gridVars>>
outsideCompliance == <<scoringVars, flagVars, authVars, loadingVars, photoVars, nameVars, authzVars, popoverVars, dialogVars, gridVars>>
outsideFlags == <<scoringVars, complianceVars, authVars, loadingVars, photoVars, nameVars, authzVars, popoverVars, dialogVars, gridVars>>
outsideAuth == <<scoringVars, complianceVars, flagVars, loadingVars, photoVars, nameVars, authzVars, popoverVars, dialogVars, gridVars>>
outsideLoading == <<scoringVars, complianceVars, flagVars, authVars, photoVars, nameVars, authzVars, popoverVars, dialogVars, gridVars>>
outsidePhoto == <<scoringVars, complianceVars, flagVars, authVars, loadingVars, nameVars, authzVars, popoverVars, dialogVars, gridVars>>
outsideName == <<scoringVars, complianceVars, flagVars, authVars, loadingVars, photoVars, authzVars, popoverVars, dialogVars, gridVars>>
outsideAuthz == <<scoringVars, complianceVars, flagVars, authVars, loadingVars, photoVars, nameVars, popoverVars, dialogVars, gridVars>>
outsidePopover == <<scoringVars, complianceVars, flagVars, authVars, loadingVars, photoVars, nameVars, authzVars, dialogVars, gridVars>>
outsideDialog == <<scoringVars, complianceVars, flagVars, authVars, loadingVars, photoVars, nameVars, authzVars, popoverVars, gridVars>>
outsideGrid == <<scoringVars, complianceVars, flagVars, authVars, loadingVars, photoVars, nameVars, authzVars, popoverVars, dialogVars>>

---------------------------------------------------------------------------
(* Numbers *)

Num(v) == [nan |-> FALSE, val |-> v]
NaN == [nan |-> TRUE, val |-> 0]

\* a * k for an integer literal k (score * 100)
Times(a, k) == IF a.nan THEN NaN ELSE Num(a.val * k)
\* a > t and a >= t against a numeric literal t; false when a is NaN
Gt(a, t) == ~a.nan /\ a.val > t
Ge(a, t) == ~a.nan /\ a.val >= t

\* the literal w.hh (a whole part and hundredths), in fixed point
Lit(w, hh) == w * 100000 + hh * 1000

---------------------------------------------------------------------------
(* performanceScoring.ts *)

PerformanceStatus == {"Great", "Good", "Normal", "Low", "Critical"}

PROD_GREAT == 10100000
PROD_GOOD == 10000000
PROD_NORMAL == 9900000
PROD_LOW == 9800000
QA_GREAT == 10000000
QA_GOOD == 9900000
QA_NORMAL == 9800000
QA_LOW == 9700000

\* the Low test written with the comparison reversed
getProductionStatusLowReversed(score) ==
    LET percentage == Times(score, 100) IN
    IF Gt(percentage, PROD_GREAT) THEN "Great"
    ELSE IF Ge(percentage, PROD_GOOD) THEN "Good"
    ELSE IF Ge(percentage, PROD_NORMAL) THEN "Normal"
    ELSE IF ~percentage.nan /\ percentage.val < PROD_LOW THEN "Low"
    ELSE "Critical"

\* the Great test written inclusive
getProductionStatusGreatInclusive(score) ==
    LET percentage == Times(score, 100) IN
    IF Ge(percentage, PROD_GREAT) THEN "Great"
    ELSE IF Ge(percentage, PROD_GOOD) THEN "Good"
    ELSE IF Ge(percentage, PROD_NORMAL) THEN "Normal"
    ELSE IF Gt(percentage, PROD_LOW) THEN "Low"
    ELSE "Critical"

getProductionStatus(score) ==
    LET percentage == Times(score, 100) IN
    IF Gt(percentage, PROD_GREAT) THEN "Great"
    ELSE IF Ge(percentage, PROD_GOOD) THEN "Good"
    ELSE IF Ge(percentage, PROD_NORMAL) THEN "Normal"
    ELSE IF Gt(percentage, PROD_LOW) THEN "Low"
    ELSE "Critical"

\* the Low test written inclusive
getQAStatusLowInclusive(score) ==
    LET percentage == Times(score, 100) IN
    IF Ge(percentage, QA_GREAT) THEN "Great"
    ELSE IF Ge(percentage, QA_GOOD) THEN "Good"
    ELSE IF Ge(percentage, QA_NORMAL) THEN "Normal"
    ELSE IF Ge(percentage, QA_LOW) THEN "Low"
    ELSE "Critical"

getQAStatus(score) ==
    LET percentage == Times(score, 100) IN
    IF Ge(percentage, QA_GREAT) THEN "Great"
    ELSE IF Ge(percentage, QA_GOOD) THEN "Good"
    ELSE IF Ge(percentage, QA_NORMAL) THEN "Normal"
    ELSE IF Gt(percentage, QA_LOW) THEN "Low"
    ELSE "Critical"

statusPriority(status) ==
    CASE status = "Critical" -> 5
      [] status = "Low" -> 4
      [] status = "Normal" -> 3
      [] status = "Good" -> 2
      [] status = "Great" -> 1

\* the comparison written the other way round
getWorstStatusReversed(prodStatus, qaStatus) ==
    IF statusPriority(prodStatus) < statusPriority(qaStatus) THEN prodStatus ELSE qaStatus

getWorstStatus(prodStatus, qaStatus) ==
    IF statusPriority(prodStatus) > statusPriority(qaStatus) THEN prodStatus ELSE qaStatus

isUnderperforming(status) == status = "Critical" \/ status = "Low"

calculatePerformanceMetrics(prod, qa) ==
    LET prodStatus == getProductionStatus(prod)
        qaStatus == getQAStatus(qa)
        overallStatus == getWorstStatus(prodStatus, qaStatus)
    IN [productionScore |-> prod,
        productionStatus |-> prodStatus,
        qaScore |-> qa,
        qaStatus |-> qaStatus,
        overallStatus |-> overallStatus,
        isUnderperforming |-> isUnderperforming(overallStatus)]

---------------------------------------------------------------------------
(* Strings.  A JavaScript string is modelled as the sequence of its characters, *)
(* a value that may be a string as a record [kind, chars] with kind "string",  *)
(* "null" or "undefined".                                                      *)

Str(chars) == [kind |-> "string", chars |-> chars]
Null == [kind |-> "null", chars |-> <<>>]
Undef == [kind |-> "undefined", chars |-> <<>>]

UpperCase == <<"A", "B", "C", "D", "E", "F", "G", "H", "I", "J", "K", "L", "M",
               "N", "O", "P", "Q", "R", "S", "T", "U", "V", "W", "X", "Y", "Z">>
LowerCase == <<"a", "b", "c", "d", "e", "f", "g", "h", "i", "j", "k", "l", "m",
               "n", "o", "p", "q", "r", "s", "t", "u", "v", "w", "x", "y", "z">>

\* String.prototype.toLowerCase
toLowerCase(chars) ==
    [i \in 1..Len(chars) |->
        IF \E k \in 1..Len(UpperCase) : UpperCase[k] = chars[i]
        THEN LowerCase[CHOOSE k \in 1..Len(UpperCase) : UpperCase[k] = chars[i]]
        ELSE chars[i]]

\* String.prototype.toUpperCase
toUpperCase(chars) ==
    [i \in 1..Len(chars) |->
        IF \E k \in 1..Len(LowerCase) : LowerCase[k] = chars[i]
        THEN UpperCase[CHOOSE k \in 1..Len(LowerCase) : LowerCase[k] = chars[i]]
        ELSE chars[i]]

WhiteSpace == {" ", "\t"}

\* String.prototype.trim
trim(chars) ==
    LET kept == {i \in 1..Len(chars) : chars[i] \notin WhiteSpace} IN
    IF kept = {} THEN <<>>
    ELSE LET first == CHOOSE i \in kept : \A j \in kept : i <= j
             last == CHOOSE i \in kept : \A j \in kept : j <= i
         IN SubSeq(chars, first, last)

\* String.prototype.includes
includes(chars, part) ==
    \E i \in 1..(Len(chars) - Len(part) + 1) :
        SubSeq(chars, i, i + Len(part) - 1) = part

\* a value in a condition: null, undefined and the empty string are falsy
Truthy(v) == v.kind = "string" /\ Len(v.chars) > 0

---------------------------------------------------------------------------
(* performanceScoring.ts: normalizeFlag *)

kw_great == <<"g", "r", "e", "a", "t">>
kw_excellent == <<"e", "x", "c", "e", "l", "l", "e", "n", "t">>
kw_good == <<"g", "o", "o", "d">>
kw_normal == <<"n", "o", "r", "m", "a", "l">>
kw_ok == <<"o", "k">>
kw_low == <<"l", "o", "w">>
kw_warning == <<"w", "a", "r", "n", "i", "n", "g">>
kw_critical == <<"c", "r", "i", "t", "i", "c", "a", "l">>
kw_poor == <<"p", "o", "o", "r">>

\* normalizeFlag without the test of !flag: trim() of null or undefined raises
normalizeFlagNoNullCheck(flag) ==
    IF flag.kind # "string" THEN "TypeError"
    ELSE LET normalized == toLowerCase(trim(flag.chars)) IN
        IF includes(normalized, kw_great) \/ includes(normalized, kw_excellent) THEN "Great"
        ELSE IF includes(normalized, kw_good) THEN "Good"
        ELSE IF includes(normalized, kw_normal) \/ includes(normalized, kw_ok) THEN "Normal"
        ELSE IF includes(normalized, kw_low) \/ includes(normalized, kw_warning) THEN "Low"
        ELSE IF includes(normalized, kw_critical) \/ includes(normalized, kw_poor) THEN "Critical"
        ELSE "Normal"

normalizeFlag(flag) ==
    IF ~Truthy(flag) THEN "Normal"
    ELSE LET normalized == toLowerCase(trim(flag.chars)) IN
        IF includes(normalized, kw_great) \/ includes(normalized, kw_excellent) THEN "Great"
        ELSE IF includes(normalized, kw_good) THEN "Good"
        ELSE IF includes(normalized, kw_normal) \/ includes(normalized, kw_ok) THEN "Normal"
        ELSE IF includes(normalized, kw_low) \/ includes(normalized, kw_warning) THEN "Low"
        ELSE IF includes(normalized, kw_critical) \/ includes(normalized, kw_poor) THEN "Critical"
        ELSE "Normal"

---------------------------------------------------------------------------
(* authService.ts: authorization by email and job title *)

UserRole ==
    {"AVP", "Director", "Manager", "Assistant Manager", "Supervisor", "Team Lead",
     "Agent", "Unauthorized"}

AUTHORIZED_TITLES ==
    { <<"A", "V", "P">>,
      <<"A", "s", "s", "i", "s", "t", "a", "n", "t", " ", "V", "i", "c", "e", " ", "P", "r", "e", "s", "i", "d", "e", "n", "t">>,
      <<"V", "i", "c", "e", " ", "P", "r", "e", "s", "i", "d", "e", "n", "t">>,
      <<"V", "P">>,
      <<"S", "e", "n", "i", "o", "r", " ", "V", "i", "c", "e", " ", "P", "r", "e", "s", "i", "d", "e", "n", "t">>,
      <<"S", "V", "P">>,
      <<"D", "i", "r", "e", "c", "t", "o", "r">>,
      <<"A", "s", "s", "o", "c", "i", "a", "t", "e", " ", "D", "i", "r", "e", "c", "t", "o", "r">>,
      <<"S", "e", "n", "i", "o", "r", " ", "D", "i", "r", "e", "c", "t", "o", "r">>,
      <<"M", "a", "n", "a", "g", "e", "r">>,
      <<"S", "e", "n", "i", "o", "r", " ", "M", "a", "n", "a", "g", "e", "r">>,
      <<"A", "s", "s", "i", "s", "t", "a", "n", "t", " ", "M", "a", "n", "a", "g", "e", "r">>,
      <<"S", "u", "p", "e", "r", "v", "i", "s", "o", "r">>,
      <<"S", "e", "n", "i", "o", "r", " ", "S", "u", "p", "e", "r", "v", "i", "s", "o", "r">>,
      <<"T", "e", "a", "m", " ", "L", "e", "a", "d">>,
      <<"T", "e", "a", "m", " ", "L", "e", "a", "d", "e", "r">>,
      <<"L", "e", "a", "d">> }

AUTO_APPROVED_EMAILS ==
    { <<"O", "N", "Q", ".", "P", "o", "w", "e", "r", "B", "I", ".", "M", "I", "S", "@", "o", "n", "q", "o", "c", ".", "c", "o", "m">> }

\* a UserProfile (email, jobTitle?; the other fields are not read), or null
UserProfile(email, jobTitle) == [kind |-> "user", email |-> email, jobTitle |-> jobTitle]
NoUser == [kind |-> "null", email |-> Undef, jobTitle |-> Undef]

isAutoApproved(email) ==
    /\ Truthy(email)
    /\ \E approvedEmail \in AUTO_APPROVED_EMAILS :
           toLowerCase(trim(email.chars)) = toLowerCase(approvedEmail)

isUserAuthorized(email, jobTitle) ==
    IF isAutoApproved(email) THEN TRUE
    ELSE IF ~Truthy(jobTitle) THEN FALSE
    ELSE \E authorizedTitle \in AUTHORIZED_TITLES :
             includes(toLowerCase(trim(jobTitle.chars)), toLowerCase(authorizedTitle))

\* getUserRole without the match of a bare 'lead'
getUserRoleNoBareLead(email, jobTitle) ==
    IF isAutoApproved(email) THEN "Director"
    ELSE IF ~Truthy(jobTitle) THEN "Unauthorized"
    ELSE LET normalizedTitle == toLowerCase(trim(jobTitle.chars)) IN
        IF \/ includes(normalizedTitle, <<"a", "v", "p">>)
           \/ includes(normalizedTitle, <<"v", "i", "c", "e", " ", "p", "r", "e", "s", "i", "d", "e", "n", "t">>)
           \/ includes(normalizedTitle, <<"v", "p">>)
        THEN "AVP"
        ELSE IF includes(normalizedTitle, <<"d", "i", "r", "e", "c", "t", "o", "r">>) THEN "Director"
        ELSE IF includes(normalizedTitle, <<"m", "a", "n", "a", "g", "e", "r">>)
        THEN IF includes(normalizedTitle, <<"a", "s", "s", "i", "s", "t", "a", "n", "t">>)
             THEN "Assistant Manager" ELSE "Manager"
        ELSE IF includes(normalizedTitle, <<"s", "u", "p", "e", "r", "v", "i", "s", "o", "r">>) THEN "Supervisor"
        ELSE IF \/ includes(normalizedTitle, <<"t", "e", "a", "m", " ", "l", "e", "a", "d">>)
                \/ includes(normalizedTitle, <<"t", "e", "a", "m", " ", "l", "e", "a", "d", "e", "r">>)
        THEN "Team Lead"
        ELSE "Agent"

getUserRole(email, jobTitle) ==
    IF isAutoApproved(email) THEN "Director"
    ELSE IF ~Truthy(jobTitle) THEN "Unauthorized"
    ELSE LET normalizedTitle == toLowerCase(trim(jobTitle.chars)) IN
        IF \/ includes(normalizedTitle, <<"a", "v", "p">>)
           \/ includes(normalizedTitle, <<"a", "s", "s", "i", "s", "t", "a", "n", "t", " ", "v", "i", "c", "e", " ", "p", "r", "e", "s", "i", "d", "e", "n", "t">>)
           \/ includes(normalizedTitle, <<"v", "i", "c", "e", " ", "p", "r", "e", "s", "i", "d", "e", "n", "t">>)
           \/ includes(normalizedTitle, <<"v", "p">>)
           \/ includes(normalizedTitle, <<"s", "v", "p">>)
        THEN "AVP"
        ELSE IF includes(normalizedTitle, <<"d", "i", "r", "e", "c", "t", "o", "r">>) THEN "Director"
        ELSE IF includes(normalizedTitle, <<"m", "a", "n", "a", "g", "e", "r">>)
        THEN IF includes(normalizedTitle, <<"a", "s", "s", "i", "s", "t", "a", "n", "t">>)
             THEN "Assistant Manager" ELSE "Manager"
        ELSE IF includes(normalizedTitle, <<"s", "u", "p", "e", "r", "v", "i", "s", "o", "r">>) THEN "Supervisor"
        ELSE IF \/ includes(normalizedTitle, <<"t", "e", "a", "m", " ", "l", "e", "a", "d">>)
                \/ includes(normalizedTitle, <<"t", "e", "a", "m", " ", "l", "e", "a", "d", "e", "r">>)
                \/ includes(normalizedTitle, <<"l", "e", "a", "d">>)
        THEN "Team Lead"
        ELSE "Agent"

\* getUserPermissions with the permission to act given to every role that may enter
getUserPermissionsAllManagers(role) ==
    [canTakeAction |-> role # "Unauthorized" /\ role # "Agent",
     canViewReports |-> role # "Unauthorized" /\ role # "Agent",
     canViewAllClients |-> role = "Director" \/ role = "AVP",
     receivesNotifications |-> role = "Director" \/ role = "AVP"]

getUserPermissions(role) ==
    [canTakeAction |-> role = "Director" \/ role = "AVP",
     canViewReports |-> role # "Unauthorized" /\ role # "Agent",
     canViewAllClients |-> role = "Director" \/ role = "AVP",
     receivesNotifications |-> role = "Director" \/ role = "AVP"]

\* authenticateUser, given what getCurrentUser returned
authenticateUser(user) ==
    IF user = NoUser
    THEN [user |-> NoUser, isAuthorized |-> FALSE, role |-> "Unauthorized"]
    ELSE LET isAuthorized == isUserAuthorized(user.email, user.jobTitle) IN
         [user |-> user,
          isAuthorized |-> isAuthorized,
          role |-> IF isAuthorized THEN getUserRole(user.email, user.jobTitle)
                   ELSE "Unauthorized"]

---------------------------------------------------------------------------
(* useUserRole.ts: the hook's state and its updates *)

NoRole == "null"

\* the four useState initial values
useUserRoleInitial(shouldAuthenticate) ==
    [role |-> NoRole, user |-> NoUser, isLoading |-> shouldAuthenticate,
     isAuthorized |-> FALSE]

\* loadUser after authenticateUser resolved, applied in one batch
loadUserResolved(h, authResult) ==
    [role |-> authResult.role, user |-> authResult.user, isLoading |-> FALSE,
     isAuthorized |-> authResult.isAuthorized]

\* loadUser's catch
loadUserRejected(h) ==
    [h EXCEPT !.role = "Unauthorized", !.isAuthorized = FALSE, !.isLoading = FALSE]

NoPermissions ==
    [canTakeAction |-> FALSE, canViewReports |-> FALSE, canViewAllClients |-> FALSE,
     receivesNotifications |-> FALSE]

\* the permissions useMemo
permissions(role) ==
    IF role = NoRole \/ role = "Unauthorized" THEN NoPermissions
    ELSE getUserPermissions(role)

\* UnderperformingView: canTakeAction, from the role its own useUserRole() returns
canTakeAction(role) == role = "Director" \/ role = "AVP"

---------------------------------------------------------------------------
(* App.tsx *)

AppState == {"welcome", "authenticating", "authorized", "denied"}

shouldAuth(state) == state = "authenticating" \/ state = "authorized" \/ state = "denied"

---------------------------------------------------------------------------
(* UnderperformingView.tsx: loading of filter options and data *)

\* PerformanceFilters (month, year; "" for an absent field) and FilterOptions
Filters(month, year) == [month |-> month, year |-> year]
NoFilters == Filters("", "")
Options(months, years) == [months |-> months, years |-> years]
EmptyOptions == Options(<<>>, <<>>)

NoError == "null"
LoadError == "Failed to load performance data. Check API server and network."

\* loadFilters: the month and year selected when none were set, now the clock
autoSelect(options, now) ==
    LET same == {i \in 1..Len(options.months) : options.months[i] = now.month}
        monthToUse == IF same = {} THEN ""
                      ELSE options.months[CHOOSE i \in same : \A j \in same : i <= j]
        yearToUse == IF \E i \in 1..Len(options.years) : options.years[i] = now.year
                     THEN now.year
                     ELSE IF options.years = <<>> THEN "undefined" ELSE options.years[1]
    IN Filters(IF monthToUse # "" THEN monthToUse ELSE options.months[Len(options.months)],
               yearToUse)

\* loadData with a response applied only if it answers the selected filters
dataLoadedIfCurrent(shown, selected, request) ==
    IF request.filters = selected THEN request.filters ELSE shown

\* loadData after its await: setRawData, setGroupedData, setClientSummaryData
dataLoaded(shown, selected, request) == request.filters

---------------------------------------------------------------------------
(* dataverseService.ts: the photo cache *)

\* a data URL: of a fetched image, or of the avatar drawn in mock mode; or null
Image(content) == [kind |-> "image", content |-> content, color |-> "", initial |-> ""]
NoPhoto == [kind |-> "null", content |-> "", color |-> "", initial |-> ""]

colors == <<"#3b82f6", "#10b981", "#f59e0b", "#ef4444", "#8b5cf6", "#ec4899">>

mockAvatar(systemuserid) ==
    [kind |-> "avatar", content |-> "",
     color |-> colors[(Len(systemuserid) % Len(colors)) + 1],
     initial |-> IF systemuserid = <<>> THEN ""
                 ELSE toUpperCase(SubSeq(systemuserid, 1, 1))[1]]

EmptyCache == <<>>

\* photoCache.set(systemuserid, dataUrl)
photoCacheSet(cache, systemuserid, dataUrl) ==
    [k \in DOMAIN cache \cup {systemuserid} |->
        IF k = systemuserid THEN dataUrl ELSE cache[k]]

\* what the backend part of getEmployeePhoto returns: null without token, on
\* a response that is not ok and on an exception, else the data URL of the image
photoReturned(response) ==
    IF response.kind = "image" THEN Image(response.content) ELSE NoPhoto

\* getEmployeePhoto storing whatever it returns
photoFetchedAlwaysStored(cache, systemuserid, response) ==
    photoCacheSet(cache, systemuserid, photoReturned(response))

\* the cache after the backend part of getEmployeePhoto
photoFetched(cache, systemuserid, response) ==
    IF response.kind = "image"
    THEN photoCacheSet(cache, systemuserid, photoReturned(response))
    ELSE cache

---------------------------------------------------------------------------
(* UnderperformingView.tsx: the display name of an agent *)

\* String.prototype.split('@')[0]: the text before the first '@', or all of it
splitAtFirst(chars) ==
    LET ats == {i \in 1..Len(chars) : chars[i] = "@"} IN
    IF ats = {} THEN chars
    ELSE SubSeq(chars, 1, (CHOOSE i \in ats : \A j \in ats : i <= j) - 1)

UnknownAgent == Str(<<"U", "n", "k", "n", "o", "w", "n", " ", "A", "g", "e", "n", "t">>)

\* a || b
OrElse(a, b) == IF Truthy(a) THEN a ELSE b

\* groupByWeek: the key of the agent, `${item.agent_email}`
agentKey(record) == record.agent_email

\* employeeList naming an agent without agent_name by the whole email
employeeListNameWholeEmail(record) ==
    LET email == OrElse(record.agent_email, agentKey(record)) IN
    OrElse(OrElse(record.agent_name, email), UnknownAgent)

\* employeeList: name
employeeListName(record) ==
    LET email == OrElse(record.agent_email, agentKey(record)) IN
    OrElse(OrElse(record.agent_name, Str(splitAtFirst(email.chars))), UnknownAgent)

\* renderEmployeeGrid: agentName
gridAgentName(record) ==
    OrElse(OrElse(record.agent_name, Str(splitAtFirst(record.agent_email.chars))),
           UnknownAgent)

---------------------------------------------------------------------------
(* FilterPopover: the client / category / task filters *)

\* PerformanceFilters with all its fields, "" for an absent one
PopFilters(month, year, client, category, task) ==
    [month |-> month, year |-> year, client |-> client, category |-> category,
     task |-> task]

\* handleCategoryChange leaving the task as it is
handleCategoryChangeKeepTask(prev, optionValue) ==
    [prev EXCEPT !.category = optionValue]

handleClientChange(prev, optionValue) ==
    [prev EXCEPT !.client = optionValue, !.category = "", !.task = ""]

handleCategoryChange(prev, optionValue) ==
    [prev EXCEPT !.category = optionValue, !.task = ""]

handleTaskChange(prev, optionValue) ==
    [prev EXCEPT !.task = optionValue]

handleClearFilters(prev) ==
    PopFilters(prev.month, prev.year, "", "", "")

activeFilterCount(f) ==
    Cardinality({k \in {"client", "category", "task"} : f[k] # ""})

\* loadCategories after its await: the two setFilters updaters, applied in
\* order to the filters of now; snapshot is currentFilters of the render that
\* started the fetch
categoriesLoaded(prev, snapshot, categories) ==
    LET auto == IF Len(categories) = 1 /\ snapshot.category = ""
                THEN [prev EXCEPT !.category = categories[1]]
                ELSE prev
    IN IF snapshot.category # "" /\ \A i \in 1..Len(categories) : categories[i] # snapshot.category
       THEN [auto EXCEPT !.category = "", !.task = ""]
       ELSE auto

\* loadTasks after its await
tasksLoaded(prev, snapshot, tasks) ==
    LET auto == IF Len(tasks) = 1 /\ snapshot.task = ""
                THEN [prev EXCEPT !.task = tasks[1]]
                ELSE prev
    IN IF snapshot.task # "" /\ \A i \in 1..Len(tasks) : tasks[i] # snapshot.task
       THEN [auto EXCEPT !.task = ""]
       ELSE auto

\* the dependencies of the two effects
categoriesDeps(f) == <<f.client, f.month, f.year>>
tasksDeps(f) == <<f.client, f.category, f.month, f.year>>

---------------------------------------------------------------------------
(* TakeActionDialog *)

\* the state of the dialog after useState, closed; "" for '' and for null
DialogInitial ==
    [isOpen |-> FALSE, selectedEmployee |-> "", selectedWeekRange |-> "",
     actionType |-> "", actionNotes |-> "", recommendation |-> <<>>,
     recommendationError |-> "", isSubmitting |-> FALSE, existingAction |-> "",
     showDuplicateWarning |-> FALSE]

\* the effect on [isOpen, preSelectedEmployee, preSelectedWeek], for the dialog
\* of UnderperformingView, which passes no pre-selection
formReset(d) ==
    IF d.isOpen
    THEN [d EXCEPT !.selectedEmployee = ""]
    ELSE [d EXCEPT !.selectedEmployee = "", !.selectedWeekRange = "",
                   !.actionType = "", !.actionNotes = "",
                   !.recommendation = <<>>, !.recommendationError = ""]

\* fetchRecommendation up to its await, for the render in which the form went
\* from old to new: the effect runs if the employee or the week changed
recommendationWanted(old, new) ==
    /\ <<old.selectedEmployee, old.selectedWeekRange>>
           # <<new.selectedEmployee, new.selectedWeekRange>>
    /\ new.selectedEmployee # ""
    /\ new.selectedWeekRange # ""

fetchRecommendationStarts(old, new) ==
    IF <<old.selectedEmployee, old.selectedWeekRange>>
           = <<new.selectedEmployee, new.selectedWeekRange>>
    THEN new
    ELSE IF new.selectedEmployee = "" \/ new.selectedWeekRange = ""
         THEN [new EXCEPT !.recommendation = <<>>]
         ELSE [new EXCEPT !.recommendationError = ""]

kw_Verbal == <<"V", "e", "r", "b", "a", "l">>
kw_Written == <<"W", "r", "i", "t", "t", "e", "n">>
kw_Coaching == <<"C", "o", "a", "c", "h", "i", "n", "g">>

\* fetchRecommendation after its await resolved with rec (its
\* recommendation_type)
recommendationLoaded(d, rec) ==
    [d EXCEPT !.recommendation = rec,
              !.actionType = IF includes(rec, kw_Verbal) THEN "Verbal"
                             ELSE IF includes(rec, kw_Written) THEN "Written"
                             ELSE IF includes(rec, kw_Coaching) THEN "Coaching"
                             ELSE @]

recommendationFailed(d) ==
    [d EXCEPT !.recommendationError = "Failed to generate recommendation. Please try again.",
              !.recommendation = <<>>]

\* the Submit Action button is enabled
submitEnabled(d) ==
    /\ ~d.isSubmitting
    /\ d.selectedEmployee # ""
    /\ d.actionType # ""
    /\ d.actionNotes # ""
    /\ d.selectedWeekRange # ""

\* handleSubmit goes on after its first test
handleSubmitComplete(d) ==
    /\ d.selectedEmployee # ""
    /\ d.actionType # ""
    /\ d.actionNotes # ""
    /\ d.selectedWeekRange # ""

NoSubmission ==
    [phase |-> "none", employee |-> "", week |-> "", actionType |-> "", notes |-> "",
     onActionSuccess |-> FALSE, onDismiss |-> FALSE]

\* handleSubmit up to await checkDuplicateAction, with the values of its render
submissionStarted(d) ==
    [phase |-> "checking", employee |-> d.selectedEmployee, week |-> d.selectedWeekRange,
     actionType |-> d.actionType, notes |-> d.actionNotes,
     onActionSuccess |-> FALSE, onDismiss |-> FALSE]

\* handleSubmit calling createWarning whatever checkDuplicateAction replied
duplicateCheckedIgnored(sub, exists) ==
    [sub EXCEPT !.phase = "creating"]

\* handleSubmit after await checkDuplicateAction: createWarning is called if
\* no action exists
duplicateChecked(sub, exists) ==
    [sub EXCEPT !.phase = IF exists THEN "duplicate" ELSE "creating"]

\* handleSubmit after await createWarning resolved
warningCreated(sub) ==
    [sub EXCEPT !.phase = "created", !.onActionSuccess = TRUE, !.onDismiss = TRUE]

\* handleSubmit in its catch
submissionFailed(sub) ==
    [sub EXCEPT !.phase = IF @ = "checking" THEN "checkFailed" ELSE "createFailed"]

---------------------------------------------------------------------------
(* api.ts: monthly compliance and recommendation *)

\* The fields of PerformanceData that calculateAgentMonthlyResults reads.
PerformanceData(qa, prod) == [flag_qa |-> qa, flag_prod |-> prod]

\* An ActionLog row.  action_date is the week of the reviewed month the date
\* falls in, 0 for a date outside the month.
ActionLog(email, date) == [agent_email |-> email, action_date |-> date]

\* An optional actionLog argument: omitted, or the rows passed.
Undefined == [given |-> FALSE, rows |-> <<>>]
Given(rows) == [given |-> TRUE, rows |-> rows]

NoResults == [called |-> FALSE]
NoRecommendation == [called |-> FALSE]

\* the test of flag_prod === 'Low' left out
isCompliantNoProdLow(recordsInWeek) ==
    ~\E i \in 1..Len(recordsInWeek) :
        LET d == recordsInWeek[i] IN
        d.flag_qa = "Critical" \/ d.flag_qa = "Low" \/ d.flag_prod = "Critical"

\* line 304-306: !recordsInWeek.some(d => ...)
isCompliant(recordsInWeek) ==
    ~\E i \in 1..Len(recordsInWeek) :
        LET d == recordsInWeek[i] IN
        d.flag_qa = "Critical" \/ d.flag_qa = "Low"
            \/ d.flag_prod = "Critical" \/ d.flag_prod = "Low"

\* the action log filtered by the weeks under review as well as by agent
countActionsInWeeks(weeksData, email, log) ==
    Cardinality({i \in 1..Len(log) :
        log[i].agent_email = email /\ log[i].action_date \in DOMAIN weeksData})

\* line 313: actionLog.filter(action => action.agent_email === agentEmail).length
\* (agentWeeksData is in scope there and is not read)
countActions(weeksData, email, log) ==
    Cardinality({i \in 1..Len(log) : log[i].agent_email = email})

\* totalWeeks taken as a fixed calendar count of four weeks
calculateAgentMonthlyResultsFixedWeeks(weeksData, email, log) ==
    LET rows == IF log.given THEN log.rows ELSE <<>> IN
    [called |-> TRUE,
     compliantWeeks |-> Cardinality({w \in DOMAIN weeksData : isCompliant(weeksData[w])}),
     totalWeeks |-> 4,
     actionCount |-> countActions(weeksData, email, rows)]

calculateAgentMonthlyResults(weeksData, email, log) ==
    LET rows == IF log.given THEN log.rows ELSE <<>> IN
    [called |-> TRUE,
     compliantWeeks |-> Cardinality({w \in DOMAIN weeksData : isCompliant(weeksData[w])}),
     totalWeeks |-> Cardinality(DOMAIN weeksData),
     actionCount |-> countActions(weeksData, email, rows)]

\* A note: its text, with the values of the template's placeholders in order.
Note(text, args) == [text |-> text, args |-> args]

Rec(action, isCritical, notes) ==
    [called |-> TRUE, action |-> action, isCritical |-> isCritical, notes |-> notes]

CaseA == Rec("No Action Required", FALSE,
    Note("Agent demonstrated 100% compliance this month. Maintain coaching.", <<>>))
CaseB == Rec("Level 1: Focused Coaching", FALSE,
    Note("One non-compliant week detected. Initiate light coaching session.", <<>>))
CaseC(n) == Rec("Level 2: Written Warning Required", TRUE,
    Note("Agent has ${nonCompliantWeeks} non-compliant weeks. Requires a formal Written Warning.", <<n>>))
CaseD(n) == Rec("Level 3: Final Warning / Escalation", TRUE,
    Note("Persistent issues (${nonCompliantWeeks} weeks) despite prior action(s). Escalation/Final Warning pending.", <<n>>))
CaseE == Rec("Review Required", TRUE,
    Note("Performance pattern does not fit standard cases. Requires manual review by leadership.", <<>>))

\* Case C written nonCompliantWeeks > 2
generateRecommendationCaseCStrict(results) ==
    LET nonCompliantWeeks == results.totalWeeks - results.compliantWeeks IN
    IF nonCompliantWeeks = 0 THEN CaseA
    ELSE IF nonCompliantWeeks = 1 /\ results.actionCount < 1 THEN CaseB
    ELSE IF nonCompliantWeeks > 2 /\ results.actionCount < 1 THEN CaseC(nonCompliantWeeks)
    ELSE IF nonCompliantWeeks >= 2 /\ results.actionCount >= 1 THEN CaseD(nonCompliantWeeks)
    ELSE CaseE

\* Case D written nonCompliantWeeks >= 2 && actionCount > 1
generateRecommendationCaseDStrict(results) ==
    LET nonCompliantWeeks == results.totalWeeks - results.compliantWeeks IN
    IF nonCompliantWeeks = 0 THEN CaseA
    ELSE IF nonCompliantWeeks = 1 /\ results.actionCount < 1 THEN CaseB
    ELSE IF nonCompliantWeeks >= 2 /\ results.actionCount < 1 THEN CaseC(nonCompliantWeeks)
    ELSE IF nonCompliantWeeks >= 2 /\ results.actionCount > 1 THEN CaseD(nonCompliantWeeks)
    ELSE CaseE

generateRecommendation(results) ==
    LET nonCompliantWeeks == results.totalWeeks - results.compliantWeeks IN
    IF nonCompliantWeeks = 0 THEN CaseA
    ELSE IF nonCompliantWeeks = 1 /\ results.actionCount < 1 THEN CaseB
    ELSE IF nonCompliantWeeks >= 2 /\ results.actionCount < 1 THEN CaseC(nonCompliantWeeks)
    ELSE IF nonCompliantWeeks >= 2 /\ results.actionCount >= 1 THEN CaseD(nonCompliantWeeks)
    ELSE CaseE

---------------------------------------------------------------------------
(* Inputs *)

\* Scores lie within MaxDelta steps of 10^-5 (0.001 %) of each whole percentage
\* from 96 % to 102 %, which covers both sides of every threshold and the
\* two-decimal neighbours 97.01 % and 98.01 %; 0, 0.5 and 2 are far-off values
\* and NaN is what an absent score multiplies to.
MaxDelta == 10
WholePercents == 96..102
Scores ==
    {Num(p * 1000 + d) : p \in WholePercents, d \in -MaxDelta..MaxDelta}
        \cup {Num(0), Num(50000), Num(200000), NaN}

NoMetrics == [called |-> FALSE]

\* Week groups: one or two records, the flagged record first or last, each of
\* the four flag tests alone, and flags whose case differs from the labels.
Ok == PerformanceData("Good", "Normal")
WeekGroups ==
    { <<Ok>>,
      <<PerformanceData("Critical", "Good")>>,
      <<PerformanceData("Low", "Great")>>,
      <<PerformanceData("Normal", "Critical")>>,
      <<PerformanceData("Great", "Low")>>,
      <<PerformanceData("critical", "LOW")>>,
      <<Ok, PerformanceData("Low", "Good")>>,
      <<PerformanceData("Good", "Critical"), Ok>> }

\* week_range keys are the weeks 1..MaxWeeks of the reviewed month
MaxWeeks == 3
Weeks == 1..MaxWeeks
WeekMaps == UNION {[present -> WeekGroups] : present \in SUBSET Weeks}

Agents == {"ana@corp.com", "ben@corp.com"}
MaxActions == 2
ActionRows == {ActionLog(e, d) : e \in Agents, d \in {0, 1}}
ActionLogs ==
    {Undefined} \cup
        {Given(rows) : rows \in UNION {[1..n -> ActionRows] : n \in 0..MaxActions}}

\* Flags as the database may hold them: the labels, the other recognised words,
\* words that match nothing, words that hold a recognised word inside, two
\* words and the empty string; each in lower case, upper case and capitalised,
\* with up to MaxPad blanks on either side; and null and undefined.
FlagWords ==
    { <<"g", "r", "e", "a", "t">>,
      <<"e", "x", "c", "e", "l", "l", "e", "n", "t">>,
      <<"g", "o", "o", "d">>,
      <<"n", "o", "r", "m", "a", "l">>,
      <<"o", "k">>,
      <<"l", "o", "w">>,
      <<"w", "a", "r", "n", "i", "n", "g">>,
      <<"c", "r", "i", "t", "i", "c", "a", "l">>,
      <<"p", "o", "o", "r">>,
      <<"b", "a", "d">>,
      <<"n", "/", "a">>,
      <<"a", "v", "e", "r", "a", "g", "e">>,
      <<"s", "l", "o", "w">>,
      <<"b", "o", "o", "k">>,
      <<"n", "o", "t", " ", "g", "o", "o", "d">>,
      <<"c", "r", "i", "t", "i", "c", "a", "l", " ", "l", "o", "w">>,
      <<"b", "e", "l", "o", "w", " ", "n", "o", "r", "m", "a", "l">>,
      <<>> }
Capitalised(chars) ==
    IF chars = <<>> THEN chars
    ELSE toUpperCase(SubSeq(chars, 1, 1)) \o SubSeq(chars, 2, Len(chars))
MaxPad == 1
Blanks(n) == [i \in 1..n |-> " "]
FlagInputs ==
    {Null, Undef} \cup
        {Str(Blanks(n) \o c \o Blanks(n)) :
            n \in 0..MaxPad,
            c \in UNION {{w, toUpperCase(w), Capitalised(w)} : w \in FlagWords}}

NoFlagResult == [called |-> FALSE, status |-> "none"]

\* What getCurrentUser may return: the mock Director of authService.ts, an
\* agent, a user without job title, the auto-approved account, a team lead, an
\* assistant vice president, or null.
CurrentUsers ==
    { UserProfile(Str(<<"p", "a", "b", "l", "o", ".", "a", "g", "u", "i", "r", "r", "e", "@", "o", "n", "q", "g", "l", "o", "b", "a", "l", ".", "c", "o", "m">>), Str(<<"D", "i", "r", "e", "c", "t", "o", "r">>)),
      UserProfile(Str(<<"a", "n", "a", "@", "c", "o", "r", "p", ".", "c", "o", "m">>), Str(<<"C", "u", "s", "t", "o", "m", "e", "r", " ", "S", "e", "r", "v", "i", "c", "e", " ", "A", "g", "e", "n", "t">>)),
      UserProfile(Str(<<"b", "e", "n", "@", "c", "o", "r", "p", ".", "c", "o", "m">>), Undef),
      UserProfile(Str(<<"o", "n", "q", ".", "p", "o", "w", "e", "r", "b", "i", ".", "m", "i", "s", "@", "o", "n", "q", "o", "c", ".", "c", "o", "m">>), Str(<<"D", "a", "t", "a", " ", "A", "n", "a", "l", "y", "s", "t">>)),
      UserProfile(Str(<<"c", "y", "@", "c", "o", "r", "p", ".", "c", "o", "m">>), Str(<<"T", "e", "a", "m", " ", "L", "e", "a", "d">>)),
      UserProfile(Str(<<"d", "i", "@", "c", "o", "r", "p", ".", "c", "o", "m">>), Str(<<"A", "s", "s", "i", "s", "t", "a", "n", "t", " ", "V", "i", "c", "e", " ", "P", "r", "e", "s", "i", "d", "e", "n", "t">>)),
      NoUser }

\* How an authenticateUser call ends: with a result, or rejected
AuthOutcomes ==
    {[threw |-> FALSE] @@ authenticateUser(u) : u \in CurrentUsers}
        \cup {[threw |-> TRUE, user |-> NoUser, isAuthorized |-> FALSE, role |-> "Unauthorized"]}

MaxClicks == 2

Instances == {"App", "View"}
NoAuth == [click |-> 0, status |-> "none", isAuthorized |-> FALSE, threw |-> FALSE]

\* What the filter endpoint may return, the clock, and the shared filters the
\* view may be mounted with
MaxRequests == 3
FilterOptionsReturned ==
    {EmptyOptions, Options(<<"October", "November">>, <<"2024", "2025">>)}
Clocks == {Filters("November", "2025"), Filters("December", "2026")}
SharedFilters == {NoFilters, Filters("October", "2025")}
NoFailure == [failed |-> FALSE, issued |-> FALSE]
Range(seq) == {seq[i] : i \in 1..Len(seq)}

\* User identifiers, how the backend may answer a photo request, and the
\* number of getEmployeePhoto calls
UserIds == {<<"a", "1">>, <<"b", "2", "2">>}
PhotoResponses ==
    {[kind |-> "image", content |-> c] : c \in {"portrait", "new portrait"}}
        \cup {[kind |-> k, content |-> ""] : k \in {"no token", "not found", "failed", "threw"}}
MaxPhotoCalls == 3
NoPhotoCall == [id |-> <<>>, hit |-> FALSE, requested |-> FALSE, returned |-> NoPhoto]

\* First records: agent_name absent, null, empty, blank or given; agent_email a
\* usual address, an address with a second '@', with nothing before the '@',
\* without '@', or empty
AgentNames ==
    {Undef, Null, Str(<<>>), Str(<<" ">>), Str(<<"A", "n", "a", " ", "C", "r", "u", "z">>)}
AgentEmails ==
    { Str(<<"a", "n", "a", ".", "c", "r", "u", "z", "@", "c", "o", "r", "p", ".", "c", "o", "m">>),
      Str(<<"b", "e", "n", "@", "c", "o", "r", "p", ".", "c", "o", "m">>),
      Str(<<"c", "y", "@", "e", "u", "@", "c", "o", "r", "p", ".", "c", "o", "m">>),
      Str(<<"@", "c", "o", "r", "p", ".", "c", "o", "m">>),
      Str(<<"d", "e", "e">>),
      Str(<<>>) }
FirstRecords == [agent_name : AgentNames, agent_email : AgentEmails]

\* Job titles: the authorized titles as listed, in lower and upper case and
\* with up to MaxPad blanks around them; titles that hold an authorized title
\* inside another word or come close to one; a blank title, the empty title
\* and no title.  Emails: the auto-approved account as listed, in lower case
\* and padded, an ordinary address, the empty string and no email.
OtherTitles ==
    { <<"L", "e", "a", "d", " ", "G", "e", "n", "e", "r", "a", "t", "i", "o", "n", " ", "S", "p", "e", "c", "i", "a", "l", "i", "s", "t">>,
      <<"M", "i", "s", "l", "e", "a", "d", "i", "n", "g", " ", "C", "l", "a", "i", "m", "s", " ", "A", "n", "a", "l", "y", "s", "t">>,
      <<"C", "u", "s", "t", "o", "m", "e", "r", " ", "S", "e", "r", "v", "i", "c", "e", " ", "A", "g", "e", "n", "t">>,
      <<"D", "a", "t", "a", " ", "A", "n", "a", "l", "y", "s", "t">>,
      <<"M", "a", "n", "a", "g", "e", "m", "e", "n", "t", " ", "T", "r", "a", "i", "n", "e", "e">>,
      <<"S", "u", "p", "e", "r", "v", "i", "s", "i", "n", "g", " ", "A", "g", "e", "n", "t">>,
      <<"V", "i", "c", "e", "-", "P", "r", "e", "s", "i", "d", "e", "n", "t">>,
      <<"D", "i", "r", "e", "c", "t", " ", "S", "a", "l", "e", "s", " ", "A", "g", "e", "n", "t">>,
      <<"A", "g", "e", "n", "t">>,
      <<"V", " ", "P">> }
JobTitles ==
    {Undef, Str(<<>>), Str(<<" ">>)} \cup
        {Str(Blanks(n) \o t \o Blanks(n)) :
            n \in 0..MaxPad,
            t \in UNION {{w, toLowerCase(w), toUpperCase(w)} :
                            w \in AUTHORIZED_TITLES \cup OtherTitles}}
Emails ==
    {Undef, Str(<<>>), Str(<<"a", "n", "a", "@", "c", "o", "r", "p", ".", "c", "o", "m">>)} \cup
        {Str(e) : e \in UNION {{a, toLowerCase(a), <<" ">> \o a \o <<" ">>} :
                                  a \in AUTO_APPROVED_EMAILS}}
UsersReturned == {NoUser} \cup {UserProfile(e, t) : e \in Emails \ {Undef}, t \in JobTitles}
NoAuthResult == [called |-> FALSE, user |-> NoUser, isAuthorized |-> FALSE, role |-> NoRole]

\* Clients, months, the category and task lists the backend may return, the
\* filters the popover may be mounted with, and the number of fetchFilters calls
\* the user's selections may start
ClientOptions == <<"Acme", "Birch">>
MonthOptions == <<"October", "November">>
CategoryLists == {<<>>, <<"Billing">>, <<"Billing", "Support">>}
TaskLists == {<<>>, <<"Invoices">>, <<"Invoices", "Refunds">>}
MountFilters ==
    {PopFilters("October", "2025", "", "", ""),
     PopFilters("October", "2025", "Acme", "Billing", "Invoices")}
MaxFetches == 3
NoHandler ==
    [name |-> "none", value |-> "", hadTask |-> FALSE]

\* The employees and weeks of the dialog's dropdowns, the action types and
\* notes the user enters, the recommendation types the backend may return, and
\* the number of generateRecommendation calls in flight at a time
EmployeeIds == {"ana", "ben"}
WeekRangeKeys == {"2025-10-06_2025-10-12"}
WarningType == {"Verbal", "Written", "Coaching"}
ActionTypesPicked == {"Written"}
NotesTyped == {"", "late twice"}
RecommendationTypes ==
    {<<"V", "e", "r", "b", "a", "l", " ", "W", "a", "r", "n", "i", "n", "g">>,
     <<"M", "o", "n", "i", "t", "o", "r">>}
MaxRecommendationFetches == 1
NoCheck == [asked |-> FALSE, exists |-> FALSE, employee |-> "", week |-> ""]

---------------------------------------------------------------------------
(* UnderperformingView: the Monthly Results cell and the Recommendations dialog *)

\* a fetched record, with the fields the two computations read
PerformanceRecord(email, week, qa, prod) ==
    [agent_email |-> email, week_range |-> week, flag_qa |-> qa, flag_prod |-> prod]

\* api.ts groupByWeek: agent_email -> week_range -> the agent's records of that
\* week, in the order of data
groupByWeek(data) ==
    LET emails == {data[i].agent_email : i \in 1..Len(data)}
        weeksOf(e) == {data[i].week_range : i \in {j \in 1..Len(data) : data[j].agent_email = e}}
        IsItem(e, w, d) == d.agent_email = e /\ d.week_range = w
    IN [e \in emails |-> [w \in weeksOf(e) |-> SelectSeq(data, LAMBDA d : IsItem(e, w, d))]]

\* renderEmployeeGrid: the week ranges of all agents' records
uniqueWeeks(groupedData) ==
    UNION {DOMAIN groupedData[e] : e \in DOMAIN groupedData}

NoScore == [shown |-> FALSE]

\* the Monthly Results cell of the row of the agent with this key: "Score:
\* compliantWeeks/totalWeeks"
monthlyResultsCell(groupedData, key) ==
    LET weeksMap == groupedData[key]
        allWeeks == uniqueWeeks(groupedData)
        Fine(flag) == flag = "Great" \/ flag = "Good" \/ flag = "Normal"
        compliant(week) ==
            /\ week \in DOMAIN weeksMap
            /\ Len(weeksMap[week]) > 0
            /\ \E i \in 1..Len(weeksMap[week]) :
                   Fine(weeksMap[week][i].flag_qa) /\ Fine(weeksMap[week][i].flag_prod)
    IN [shown |-> TRUE,
        compliantWeeks |-> Cardinality({week \in allWeeks : compliant(week)}),
        totalWeeks |-> Cardinality(allWeeks)]

\* handleViewRecommendations up to calculateAgentMonthlyResults: the monthly
\* results the dialog is opened with
viewedMonthlyResults(data, log, email) ==
    LET agentRawData == SelectSeq(data, LAMBDA d : d.agent_email = email)
        agentWeeksMap == groupByWeek(agentRawData)
        weeksData == IF email \in DOMAIN agentWeeksMap THEN agentWeeksMap[email] ELSE <<>>
    IN calculateAgentMonthlyResults(weeksData, email, log)

\* The records loadData may fetch: up to MaxRecords records of two agents in
\* two weeks, each fine on both metrics, Critical on QA, or Low on Production
GridWeeks == {"Oct 6 - Oct 12", "Oct 13 - Oct 19"}
RecordFlags == {<<"Good", "Normal">>, <<"Critical", "Good">>, <<"Great", "Low">>}
RecordsFetched ==
    {PerformanceRecord(e, w, f[1], f[2]) : e \in Agents, w \in GridWeeks, f \in RecordFlags}
MaxRecords == 3
RawData == UNION {[1..n -> RecordsFetched] : n \in 1..MaxRecords}

---------------------------------------------------------------------------
(* Specifications *)

\* each part at rest
IdleScoring ==
    /\ prodScore = Num(0)
    /\ qaScore = Num(0)
    /\ metrics = NoMetrics

IdleCompliance ==
    /\ agentWeeksData = <<>>
    /\ agentEmail = "ana@corp.com"
    /\ actionLog = Undefined
    /\ monthlyResults = NoResults
    /\ recommendation = NoRecommendation

IdleFlags ==
    /\ flagInput = Null
    /\ flagResult = NoFlagResult

IdleAuth ==
    /\ appState = "welcome"
    /\ hooks = [i \in Instances |-> useUserRoleInitial(i = "View")]
    /\ pendingCalls = {}
    /\ hookDeps = FALSE
    /\ appDeps = <<"welcome", FALSE, FALSE>>
    /\ viewDeps = "unmounted"
    /\ clicks = 0
    /\ lastAuth = NoAuth

IdleLoading ==
    /\ currentFilters = NoFilters
    /\ filters = NoFilters
    /\ loading = TRUE
    /\ error = NoError
    /\ displayed = NoFilters
    /\ filterOptions = EmptyOptions
    /\ filtersFetch = "pending"
    /\ dataRequests = {}
    /\ requestsIssued = 0
    /\ lastSuccess = NoFilters
    /\ failure = NoFailure

IdlePhoto ==
    /\ useMockData = FALSE
    /\ photoCache = EmptyCache
    /\ photoCalls = {}
    /\ photoCallsStarted = 0
    /\ lastPhotoCall = NoPhotoCall
    /\ firstStored = EmptyCache

IdleName ==
    /\ firstRecord = [agent_name |-> Undef, agent_email |-> Str(<<>>)]
    /\ listName = Undef
    /\ gridName = Undef

IdleAuthz ==
    /\ currentUser = NoUser
    /\ authzResult = NoAuthResult

IdlePopover ==
    /\ popFilters = PopFilters("", "", "", "", "")
    /\ availableCategories = <<>>
    /\ availableTasks = <<>>
    /\ loadingCategories = FALSE
    /\ loadingTasks = FALSE
    /\ categoryFetches = {}
    /\ taskFetches = {}
    /\ fetchesIssued = 0
    /\ categoriesFor = ""
    /\ tasksFor = <<"", "">>
    /\ lastHandler = NoHandler

IdleDialog ==
    /\ dialog = DialogInitial
    /\ submission = NoSubmission
    /\ deleting = FALSE
    /\ recommendationFetches = 0
    /\ lastCheck = NoCheck

IdleGrid ==
    /\ rawData = <<>>
    /\ rowAgent = "ana@corp.com"
    /\ gridScore = NoScore
    /\ dialogResults = NoResults

InitScoring ==
    /\ prodScore \in Scores
    /\ qaScore \in Scores
    /\ metrics = NoMetrics
    /\ IdleCompliance
    /\ IdleFlags
    /\ IdleAuth
    /\ IdleLoading
    /\ IdlePhoto
    /\ IdleName
    /\ IdleAuthz
    /\ IdlePopover
    /\ IdleDialog
    /\ IdleGrid

InitCompliance ==
    /\ agentWeeksData \in WeekMaps
    /\ agentEmail = "ana@corp.com"
    /\ actionLog \in ActionLogs
    /\ monthlyResults = NoResults
    /\ recommendation = NoRecommendation
    /\ IdleScoring
    /\ IdleFlags
    /\ IdleAuth
    /\ IdleLoading
    /\ IdlePhoto
    /\ IdleName
    /\ IdleAuthz
    /\ IdlePopover
    /\ IdleDialog
    /\ IdleGrid

InitFlags ==
    /\ flagInput \in FlagInputs
    /\ flagResult = NoFlagResult
    /\ IdleScoring
    /\ IdleCompliance
    /\ IdleAuth
    /\ IdleLoading
    /\ IdlePhoto
    /\ IdleName
    /\ IdleAuthz
    /\ IdlePopover
    /\ IdleDialog
    /\ IdleGrid

\* App and its useUserRole(false) mounted, their mount effects run; the
\* dashboard, with its own useUserRole(), not mounted
InitAuth ==
    /\ appState = "welcome"
    /\ hooks = [i \in Instances |-> useUserRoleInitial(i = "View")]
    /\ pendingCalls = {}
    /\ hookDeps = FALSE
    /\ appDeps = <<"welcome", FALSE, FALSE>>
    /\ viewDeps = "unmounted"
    /\ clicks = 0
    /\ lastAuth = NoAuth
    /\ IdleScoring
    /\ IdleCompliance
    /\ IdleFlags
    /\ IdleLoading
    /\ IdlePhoto
    /\ IdleName
    /\ IdleAuthz
    /\ IdlePopover
    /\ IdleDialog
    /\ IdleGrid

\* UnderperformingView mounted and its mount effects run: fetchFilters called,
\* and loadData(filters) if the shared filters hold a month and a year
InitLoading ==
    /\ currentFilters \in SharedFilters
    /\ filters = currentFilters
    /\ loading = TRUE
    /\ error = NoError
    /\ displayed = NoFilters
    /\ filterOptions = EmptyOptions
    /\ filtersFetch = "pending"
    /\ dataRequests = IF currentFilters.month # "" /\ currentFilters.year # ""
                      THEN {[id |-> 1, filters |-> currentFilters]} ELSE {}
    /\ requestsIssued = Cardinality(dataRequests)
    /\ lastSuccess = NoFilters
    /\ failure = NoFailure
    /\ IdleScoring
    /\ IdleCompliance
    /\ IdleFlags
    /\ IdleAuth
    /\ IdlePhoto
    /\ IdleName
    /\ IdleAuthz
    /\ IdlePopover
    /\ IdleDialog
    /\ IdleGrid

\* dataverseService loaded: the cache empty
InitPhoto ==
    /\ useMockData \in BOOLEAN
    /\ photoCache = EmptyCache
    /\ photoCalls = {}
    /\ photoCallsStarted = 0
    /\ lastPhotoCall = NoPhotoCall
    /\ firstStored = EmptyCache
    /\ IdleScoring
    /\ IdleCompliance
    /\ IdleFlags
    /\ IdleAuth
    /\ IdleLoading
    /\ IdleName
    /\ IdleAuthz
    /\ IdlePopover
    /\ IdleDialog
    /\ IdleGrid

\* groupedData holds an agent whose first record is firstRecord
InitName ==
    /\ firstRecord \in FirstRecords
    /\ listName = Undef
    /\ gridName = Undef
    /\ IdleScoring
    /\ IdleCompliance
    /\ IdleFlags
    /\ IdleAuth
    /\ IdleLoading
    /\ IdlePhoto
    /\ IdleAuthz
    /\ IdlePopover
    /\ IdleDialog
    /\ IdleGrid

\* getCurrentUser has returned
InitAuthz ==
    /\ currentUser \in UsersReturned
    /\ authzResult = NoAuthResult
    /\ IdleScoring
    /\ IdleCompliance
    /\ IdleFlags
    /\ IdleAuth
    /\ IdleLoading
    /\ IdlePhoto
    /\ IdleName
    /\ IdlePopover
    /\ IdleDialog
    /\ IdleGrid

\* FilterPopover mounted and its two effects run: loadCategories fetches if a
\* client is set, loadTasks if a client and a category are set
InitPopover ==
    /\ popFilters \in MountFilters
    /\ availableCategories = <<>>
    /\ availableTasks = <<>>
    /\ loadingCategories = (popFilters.client # "")
    /\ loadingTasks = (popFilters.client # "" /\ popFilters.category # "")
    /\ categoryFetches = IF popFilters.client # ""
                         THEN {[id |-> 1, snapshot |-> popFilters]} ELSE {}
    /\ taskFetches = IF popFilters.client # "" /\ popFilters.category # ""
                     THEN {[id |-> 2, snapshot |-> popFilters]} ELSE {}
    /\ fetchesIssued = Cardinality(categoryFetches) + Cardinality(taskFetches)
    /\ categoriesFor = ""
    /\ tasksFor = <<"", "">>
    /\ lastHandler = NoHandler
    /\ IdleScoring
    /\ IdleCompliance
    /\ IdleFlags
    /\ IdleAuth
    /\ IdleLoading
    /\ IdlePhoto
    /\ IdleName
    /\ IdleAuthz
    /\ IdleDialog
    /\ IdleGrid

\* UnderperformingView mounted, the dialog closed
InitDialog ==
    /\ dialog = DialogInitial
    /\ submission = NoSubmission
    /\ deleting = FALSE
    /\ recommendationFetches = 0
    /\ lastCheck = NoCheck
    /\ IdleScoring
    /\ IdleCompliance
    /\ IdleFlags
    /\ IdleAuth
    /\ IdleLoading
    /\ IdlePhoto
    /\ IdleName
    /\ IdleAuthz
    /\ IdlePopover
    /\ IdleGrid

\* loadData has set rawData and groupedData; the row looked at is one of the
\* rows of the grid, a key of groupedData
InitGrid ==
    /\ rawData \in RawData
    /\ rowAgent \in {rawData[i].agent_email : i \in 1..Len(rawData)}
    /\ gridScore = NoScore
    /\ dialogResults = NoResults
    /\ IdleScoring
    /\ IdleCompliance
    /\ IdleFlags
    /\ IdleAuth
    /\ IdleLoading
    /\ IdlePhoto
    /\ IdleName
    /\ IdleAuthz
    /\ IdlePopover
    /\ IdleDialog

\* calculatePerformanceMetrics(prodScore, qaScore)
CalculatePerformanceMetrics ==
    /\ ~metrics.called
    /\ metrics' = [called |-> TRUE] @@ calculatePerformanceMetrics(prodScore, qaScore)
    /\ UNCHANGED <<prodScore, qaScore, outsideScoring>>

\* calculateAgentMonthlyResults(agentWeeksData, agentEmail, actionLog)
CalculateAgentMonthlyResults ==
    /\ ~monthlyResults.called
    /\ monthlyResults' = calculateAgentMonthlyResults(agentWeeksData, agentEmail, actionLog)
    /\ UNCHANGED <<agentWeeksData, agentEmail, actionLog, recommendation, outsideCompliance>>

\* generateRecommendation(monthlyResults)
GenerateRecommendation ==
    /\ monthlyResults.called
    /\ ~recommendation.called
    /\ recommendation' = generateRecommendation(monthlyResults)
    /\ UNCHANGED <<agentWeeksData, agentEmail, actionLog, monthlyResults, outsideCompliance>>

\* normalizeFlag(flagInput)
NormalizeFlag ==
    /\ ~flagResult.called
    /\ flagResult' = [called |-> TRUE, status |-> normalizeFlag(flagInput)]
    /\ UNCHANGED <<flagInput, outsideFlags>>

\* the rendered values App's effect depends on
AppEffectDeps == <<appState, hooks["App"].isLoading, hooks["App"].isAuthorized>>

\* some effect of the committed render has not run yet
EffectsPending ==
    \/ hookDeps # shouldAuth(appState)
    \/ appDeps # AppEffectDeps
    \/ appState = "authorized" /\ viewDeps = "unmounted"

\* the user clicks Enter Dashboard on the welcome screen: handleEnterDashboard
EnterDashboard ==
    /\ appState = "welcome"
    /\ ~EffectsPending
    /\ clicks < MaxClicks
    /\ appState' = "authenticating"
    /\ clicks' = clicks + 1
    /\ UNCHANGED <<hooks, pendingCalls, hookDeps, appDeps, viewDeps, lastAuth, outsideAuth>>

\* the user clicks Go Back on AccessDenied or the logo of the dashboard:
\* handleGoToWelcome; the dashboard, if shown, unmounts and its hook's cleanup runs
GoToWelcome ==
    /\ appState \in {"denied", "authorized"}
    /\ ~EffectsPending
    /\ appState' = "welcome"
    /\ hooks' = [hooks EXCEPT !["View"] = useUserRoleInitial(TRUE)]
    /\ pendingCalls' = {IF c.inst = "View" THEN [c EXCEPT !.isMounted = FALSE] ELSE c :
                           c \in pendingCalls}
    /\ viewDeps' = "unmounted"
    /\ UNCHANGED <<hookDeps, appDeps, clicks, lastAuth, outsideAuth>>

\* The effects of the committed render run, each with the values of that render,
\* and their state updates are applied together: the effect of the dashboard's
\* useUserRole() at its mount, the effect of App's useUserRole(shouldAuth) when
\* shouldAuth changed (the cleanup of its last run first), and App's effect when
\* appState, isLoading or isAuthorized changed.
RunEffects ==
    /\ EffectsPending
    /\ LET hookRuns == hookDeps # shouldAuth(appState)
           appRuns == appDeps # AppEffectDeps
           viewRuns == appState = "authorized" /\ viewDeps = "unmounted"
           startApp == hookRuns /\ shouldAuth(appState)
           cleaned == IF hookRuns
                      THEN {IF c.inst = "App" THEN [c EXCEPT !.isMounted = FALSE] ELSE c :
                               c \in pendingCalls}
                      ELSE pendingCalls
           started == (IF startApp
                       THEN {[inst |-> "App", click |-> clicks, isMounted |-> TRUE]}
                       ELSE {})
                      \cup (IF viewRuns
                            THEN {[inst |-> "View", click |-> clicks, isMounted |-> TRUE]}
                            ELSE {})
       IN /\ pendingCalls' = cleaned \cup started
          /\ hooks' = [hooks EXCEPT
                          !["App"].isLoading = IF hookRuns THEN shouldAuth(appState) ELSE @,
                          !["View"].isLoading = IF viewRuns THEN TRUE ELSE @]
          /\ appState' = IF appRuns /\ appState = "authenticating" /\ ~hooks["App"].isLoading
                         THEN IF hooks["App"].isAuthorized THEN "authorized" ELSE "denied"
                         ELSE appState
          /\ hookDeps' = shouldAuth(appState)
          /\ appDeps' = AppEffectDeps
          /\ viewDeps' = IF appState = "authorized" THEN "mounted" ELSE viewDeps
          /\ lastAuth' = IF startApp
                         THEN [click |-> clicks, status |-> "pending",
                               isAuthorized |-> FALSE, threw |-> FALSE]
                         ELSE lastAuth
    /\ UNCHANGED <<clicks, outsideAuth>>

\* an authenticateUser call ends and loadUser continues after its await
AuthResolve ==
    /\ ~EffectsPending
    /\ \E c \in pendingCalls, outcome \in AuthOutcomes :
        /\ pendingCalls' = pendingCalls \ {c}
        /\ hooks' = IF ~c.isMounted THEN hooks
                    ELSE IF outcome.threw
                    THEN [hooks EXCEPT ![c.inst] = loadUserRejected(@)]
                    ELSE [hooks EXCEPT ![c.inst] = loadUserResolved(@, outcome)]
        /\ lastAuth' = IF c.inst = "App" /\ c.click = lastAuth.click
                       THEN [click |-> c.click,
                             status |-> IF c.isMounted THEN "done" ELSE "dropped",
                             isAuthorized |-> outcome.isAuthorized,
                             threw |-> outcome.threw]
                       ELSE lastAuth
    /\ UNCHANGED <<appState, hookDeps, appDeps, viewDeps, clicks, outsideAuth>>

\* loadData(f), up to its await
LoadDataStarts(f) ==
    IF f.month = "" \/ f.year = ""
    THEN /\ loading' = FALSE
         /\ UNCHANGED <<error, dataRequests, requestsIssued>>
    ELSE /\ loading' = TRUE
         /\ error' = NoError
         /\ dataRequests' = dataRequests \cup {[id |-> requestsIssued + 1, filters |-> f]}
         /\ requestsIssued' = requestsIssued + 1

\* the effect on [filters]: loadData(f) if f holds a month and a year
FiltersEffect(f) ==
    IF f.month # "" /\ f.year # "" THEN LoadDataStarts(f)
    ELSE UNCHANGED <<loading, error, dataRequests, requestsIssued>>

\* fetchFilters resolves and loadFilters continues
FetchFiltersResolves ==
    /\ filtersFetch = "pending"
    /\ filtersFetch' = "loaded"
    /\ \E options \in FilterOptionsReturned, now \in Clocks :
        /\ filterOptions' = options
        /\ LET hasExistingFilters == currentFilters.month # "" \/ currentFilters.year # "" IN
           IF ~hasExistingFilters /\ Len(options.months) > 0
           THEN /\ filters' = autoSelect(options, now)
                /\ FiltersEffect(filters')
                /\ failure' = IF failure.failed THEN [failure EXCEPT !.issued = TRUE]
                              ELSE failure
           ELSE IF hasExistingFilters
           THEN UNCHANGED <<filters, loading, error, dataRequests, requestsIssued, failure>>
           ELSE /\ loading' = FALSE
                /\ UNCHANGED <<filters, error, dataRequests, requestsIssued, failure>>
    /\ UNCHANGED <<currentFilters, displayed, lastSuccess, outsideLoading>>

\* fetchFilters rejects: loadFilters' catch
FetchFiltersRejects ==
    /\ filtersFetch = "pending"
    /\ filtersFetch' = "failed"
    /\ failure' = [failed |-> TRUE, issued |-> FALSE]
    /\ UNCHANGED <<currentFilters, filters, loading, error, displayed, filterOptions,
                   dataRequests, requestsIssued, lastSuccess, outsideLoading>>

\* the user picks a month in the Month dropdown
SelectMonth ==
    /\ requestsIssued < MaxRequests
    /\ \E month \in Range(filterOptions.months) :
        /\ filters' = [filters EXCEPT !.month = month]
        /\ FiltersEffect(filters')
    /\ failure' = NoFailure
    /\ UNCHANGED <<currentFilters, displayed, filterOptions, filtersFetch, lastSuccess,
                   outsideLoading>>

\* the user picks a year in the Year dropdown
SelectYear ==
    /\ requestsIssued < MaxRequests
    /\ \E year \in Range(filterOptions.years) :
        /\ filters' = [filters EXCEPT !.year = year]
        /\ FiltersEffect(filters')
    /\ failure' = NoFailure
    /\ UNCHANGED <<currentFilters, displayed, filterOptions, filtersFetch, lastSuccess,
                   outsideLoading>>

\* an action was submitted in the Take Action dialog: onActionSuccess
ActionSubmitted ==
    /\ requestsIssued < MaxRequests
    /\ LoadDataStarts(filters)
    /\ failure' = NoFailure
    /\ UNCHANGED <<currentFilters, filters, displayed, filterOptions, filtersFetch,
                   lastSuccess, outsideLoading>>

\* the three fetches of a loadData call resolve
LoadDataResolves ==
    /\ \E request \in dataRequests :
        /\ dataRequests' = dataRequests \ {request}
        /\ displayed' = dataLoaded(displayed, filters, request)
        /\ lastSuccess' = request.filters
    /\ loading' = FALSE
    /\ UNCHANGED <<currentFilters, filters, error, filterOptions, filtersFetch,
                   requestsIssued, failure, outsideLoading>>

\* one of the three fetches of a loadData call rejects
LoadDataRejects ==
    /\ \E request \in dataRequests :
        dataRequests' = dataRequests \ {request}
    /\ error' = LoadError
    /\ loading' = FALSE
    /\ failure' = [failed |-> TRUE, issued |-> FALSE]
    /\ UNCHANGED <<currentFilters, filters, displayed, filterOptions, filtersFetch,
                   requestsIssued, lastSuccess, outsideLoading>>

\* getEmployeePhoto(systemuserid), up to its first await: the cached value
\* returned, the mock avatar stored and returned, or the backend asked
GetEmployeePhoto ==
    /\ photoCallsStarted < MaxPhotoCalls
    /\ photoCallsStarted' = photoCallsStarted + 1
    /\ \E systemuserid \in UserIds :
        IF systemuserid \in DOMAIN photoCache
        THEN /\ lastPhotoCall' = [id |-> systemuserid, hit |-> TRUE, requested |-> FALSE,
                                  returned |-> photoCache[systemuserid]]
             /\ UNCHANGED <<photoCache, photoCalls, firstStored>>
        ELSE IF useMockData
        THEN /\ photoCache' = photoCacheSet(photoCache, systemuserid, mockAvatar(systemuserid))
             /\ firstStored' = photoCacheSet(firstStored, systemuserid, mockAvatar(systemuserid))
             /\ lastPhotoCall' = [id |-> systemuserid, hit |-> FALSE, requested |-> FALSE,
                                  returned |-> mockAvatar(systemuserid)]
             /\ UNCHANGED photoCalls
        ELSE /\ photoCalls' = photoCalls \cup {[n |-> photoCallsStarted + 1, id |-> systemuserid]}
             /\ lastPhotoCall' = [id |-> systemuserid, hit |-> FALSE, requested |-> TRUE,
                                  returned |-> NoPhoto]
             /\ UNCHANGED <<photoCache, firstStored>>
    /\ UNCHANGED <<useMockData, outsidePhoto>>

\* the backend part of a getEmployeePhoto call ends
PhotoFetched ==
    /\ \E call \in photoCalls, response \in PhotoResponses :
        /\ photoCalls' = photoCalls \ {call}
        /\ photoCache' = photoFetched(photoCache, call.id, response)
        /\ firstStored' = IF call.id \in DOMAIN firstStored THEN firstStored
                          ELSE photoFetched(firstStored, call.id, response)
    /\ UNCHANGED <<useMockData, photoCallsStarted, lastPhotoCall, outsidePhoto>>

\* clearPhotoCache()
ClearPhotoCache ==
    /\ photoCache' = EmptyCache
    /\ firstStored' = EmptyCache
    /\ UNCHANGED <<useMockData, photoCalls, photoCallsStarted, lastPhotoCall, outsidePhoto>>

\* the employeeList memo is computed
EmployeeList ==
    /\ listName = Undef
    /\ listName' = employeeListName(firstRecord)
    /\ UNCHANGED <<firstRecord, gridName, outsideName>>

\* renderEmployeeGrid renders the row of the agent
RenderEmployeeGrid ==
    /\ gridName = Undef
    /\ gridName' = gridAgentName(firstRecord)
    /\ UNCHANGED <<firstRecord, listName, outsideName>>

\* authenticateUser, after its await of getCurrentUser
AuthenticateUser ==
    /\ ~authzResult.called
    /\ authzResult' = [called |-> TRUE] @@ authenticateUser(currentUser)
    /\ UNCHANGED <<currentUser, outsideAuthz>>

\* One step of the popover and the render after it: the filters go from old to
\* new, the step has set the lists (categories, tasks) and the loading flags
\* (loadingC, loadingT), and each of the two effects runs if one of its
\* dependencies changed. The step also takes fetch doneC away from
\* categoryFetches and fetch doneT from taskFetches (0, an id no fetch has, for
\* none).
PopoverStep(old, new, categories, tasks, loadingC, loadingT, forC, forT, doneC, doneT) ==
    LET runC == categoriesDeps(old) # categoriesDeps(new)
        runT == tasksDeps(old) # tasksDeps(new)
        fetchC == runC /\ new.client # ""
        fetchT == runT /\ new.client # "" /\ new.category # ""
        idC == fetchesIssued + 1
        idT == fetchesIssued + (IF fetchC THEN 2 ELSE 1)
    IN /\ popFilters' = new
       /\ availableCategories' = IF runC /\ ~fetchC THEN <<>> ELSE categories
       /\ categoriesFor' = IF runC /\ ~fetchC THEN "" ELSE forC
       /\ availableTasks' = IF runT /\ ~fetchT THEN <<>> ELSE tasks
       /\ tasksFor' = IF runT /\ ~fetchT THEN <<"", "">> ELSE forT
       /\ loadingCategories' = IF fetchC THEN TRUE ELSE loadingC
       /\ loadingTasks' = IF fetchT THEN TRUE ELSE loadingT
       /\ categoryFetches' =
              {f \in categoryFetches : f.id # doneC}
                  \cup (IF fetchC THEN {[id |-> idC, snapshot |-> new]} ELSE {})
       /\ taskFetches' =
              {f \in taskFetches : f.id # doneT}
                  \cup (IF fetchT THEN {[id |-> idT, snapshot |-> new]} ELSE {})
       /\ fetchesIssued' = fetchesIssued + (IF fetchC THEN 1 ELSE 0) + (IF fetchT THEN 1 ELSE 0)

\* a user step of the popover: the filters go from popFilters to new
PopoverUserStep(new) ==
    PopoverStep(popFilters, new, availableCategories, availableTasks,
                loadingCategories, loadingTasks, categoriesFor, tasksFor, 0, 0)

\* the user picks a client, or All Clients, in the Client dropdown
HandleClientChange ==
    /\ fetchesIssued < MaxFetches
    /\ \E optionValue \in Range(ClientOptions) \cup {""} :
        /\ PopoverUserStep(handleClientChange(popFilters, optionValue))
        /\ lastHandler' = [name |-> "client", value |-> optionValue,
                           hadTask |-> popFilters.task # ""]
    /\ UNCHANGED outsidePopover

\* the user picks a category, or All Categories, in the Category dropdown
HandleCategoryChange ==
    /\ fetchesIssued < MaxFetches
    /\ popFilters.client # ""
    /\ ~loadingCategories
    /\ \E optionValue \in Range(availableCategories) \cup {""} :
        /\ PopoverUserStep(handleCategoryChange(popFilters, optionValue))
        /\ lastHandler' = [name |-> "category", value |-> optionValue,
                           hadTask |-> popFilters.task # ""]
    /\ UNCHANGED outsidePopover

\* the user picks a task, or All Tasks, in the Task dropdown
HandleTaskChange ==
    /\ popFilters.client # ""
    /\ popFilters.category # ""
    /\ ~loadingTasks
    /\ \E optionValue \in Range(availableTasks) \cup {""} :
        /\ PopoverUserStep(handleTaskChange(popFilters, optionValue))
        /\ lastHandler' = [name |-> "task", value |-> optionValue,
                           hadTask |-> popFilters.task # ""]
    /\ UNCHANGED outsidePopover

\* the user clicks Clear Filters
HandleClearFilters ==
    /\ activeFilterCount(popFilters) > 0
    /\ PopoverUserStep(handleClearFilters(popFilters))
    /\ lastHandler' = [name |-> "clear", value |-> "",
                       hadTask |-> popFilters.task # ""]
    /\ UNCHANGED outsidePopover

\* the user picks a month in the Month dropdown of the view
PopoverMonthChange ==
    /\ fetchesIssued < MaxFetches
    /\ \E month \in Range(MonthOptions) :
        PopoverUserStep([popFilters EXCEPT !.month = month])
    /\ UNCHANGED <<lastHandler, outsidePopover>>

\* the fetchFilters call of a loadCategories run resolves
CategoriesResolve ==
    /\ \E fetch \in categoryFetches, categories \in CategoryLists :
        PopoverStep(popFilters, categoriesLoaded(popFilters, fetch.snapshot, categories),
                    categories, availableTasks, FALSE, loadingTasks,
                    fetch.snapshot.client, tasksFor, fetch.id, 0)
    /\ UNCHANGED <<lastHandler, outsidePopover>>

\* the fetchFilters call of a loadCategories run rejects
CategoriesReject ==
    /\ \E fetch \in categoryFetches :
        PopoverStep(popFilters, popFilters, <<>>, availableTasks, FALSE, loadingTasks,
                    "", tasksFor, fetch.id, 0)
    /\ UNCHANGED <<lastHandler, outsidePopover>>

\* the fetchFilters call of a loadTasks run resolves
TasksResolve ==
    /\ \E fetch \in taskFetches, tasks \in TaskLists :
        PopoverStep(popFilters, tasksLoaded(popFilters, fetch.snapshot, tasks),
                    availableCategories, tasks, loadingCategories, FALSE,
                    categoriesFor, <<fetch.snapshot.client, fetch.snapshot.category>>,
                    0, fetch.id)
    /\ UNCHANGED <<lastHandler, outsidePopover>>

\* the fetchFilters call of a loadTasks run rejects
TasksReject ==
    /\ \E fetch \in taskFetches :
        PopoverStep(popFilters, popFilters, availableCategories, <<>>,
                    loadingCategories, FALSE, categoriesFor, <<"", "">>, 0, fetch.id)
    /\ UNCHANGED <<lastHandler, outsidePopover>>

\* One step of the dialog and the renders after it: the step has made the
\* dialog new; the reset effect runs if isOpen changed, and then the
\* recommendation effect if the employee or the week changed.
DialogStep(new) ==
    LET reset == IF new.isOpen # dialog.isOpen THEN formReset(new) ELSE new
    IN /\ recommendationWanted(dialog, reset) =>
              recommendationFetches < MaxRecommendationFetches
       /\ dialog' = fetchRecommendationStarts(dialog, reset)
       /\ recommendationFetches' =
              recommendationFetches + (IF recommendationWanted(dialog, reset) THEN 1 ELSE 0)

\* the user clicks Take Action in the view
OpenDialog ==
    /\ ~dialog.isOpen
    /\ DialogStep([dialog EXCEPT !.isOpen = TRUE])
    /\ UNCHANGED <<submission, deleting, lastCheck, outsideDialog>>

\* the user closes the dialog: Cancel, or Escape or a click outside, which
\* isSubmitting does not disable
DismissDialog ==
    /\ dialog.isOpen
    /\ DialogStep([dialog EXCEPT !.isOpen = FALSE])
    /\ UNCHANGED <<submission, deleting, lastCheck, outsideDialog>>

SelectEmployee ==
    /\ dialog.isOpen
    /\ \E id \in EmployeeIds : DialogStep([dialog EXCEPT !.selectedEmployee = id])
    /\ UNCHANGED <<submission, deleting, lastCheck, outsideDialog>>

SelectWeekRange ==
    /\ dialog.isOpen
    /\ \E week \in WeekRangeKeys : DialogStep([dialog EXCEPT !.selectedWeekRange = week])
    /\ UNCHANGED <<submission, deleting, lastCheck, outsideDialog>>

SelectActionType ==
    /\ dialog.isOpen
    /\ \E type \in ActionTypesPicked : DialogStep([dialog EXCEPT !.actionType = type])
    /\ UNCHANGED <<submission, deleting, lastCheck, outsideDialog>>

TypeNotes ==
    /\ dialog.isOpen
    /\ \E notes \in NotesTyped : DialogStep([dialog EXCEPT !.actionNotes = notes])
    /\ UNCHANGED <<submission, deleting, lastCheck, outsideDialog>>

\* a generateRecommendation call resolves
RecommendationResolves ==
    /\ recommendationFetches > 0
    /\ \E rec \in RecommendationTypes :
        dialog' = recommendationLoaded(dialog, rec)
    /\ recommendationFetches' = recommendationFetches - 1
    /\ UNCHANGED <<submission, deleting, lastCheck, outsideDialog>>

\* a generateRecommendation call rejects
RecommendationRejects ==
    /\ recommendationFetches > 0
    /\ dialog' = recommendationFailed(dialog)
    /\ recommendationFetches' = recommendationFetches - 1
    /\ UNCHANGED <<submission, deleting, lastCheck, outsideDialog>>

\* the user clicks Submit Action: handleSubmit up to await checkDuplicateAction
HandleSubmit ==
    /\ dialog.isOpen
    /\ submitEnabled(dialog)
    /\ handleSubmitComplete(dialog)
    /\ submission' = submissionStarted(dialog)
    /\ dialog' = [dialog EXCEPT !.isSubmitting = TRUE]
    /\ UNCHANGED <<deleting, recommendationFetches, lastCheck, outsideDialog>>

\* checkDuplicateAction resolves: an action exists for the employee and week,
\* or none does
DuplicateCheckResolves ==
    /\ submission.phase = "checking"
    /\ \E exists \in BOOLEAN :
        /\ lastCheck' = [asked |-> TRUE, exists |-> exists,
                         employee |-> submission.employee, week |-> submission.week]
        /\ submission' = duplicateChecked(submission, exists)
        /\ dialog' = IF submission'.phase = "duplicate"
                     THEN [dialog EXCEPT !.existingAction = submission.employee,
                                         !.showDuplicateWarning = TRUE,
                                         !.isSubmitting = FALSE]
                     ELSE dialog
    /\ UNCHANGED <<deleting, recommendationFetches, outsideDialog>>

\* createWarning resolves: onActionSuccess(), onDismiss(), which closes the
\* dialog, and setIsSubmitting(false)
CreateWarningResolves ==
    /\ submission.phase = "creating"
    /\ submission' = warningCreated(submission)
    /\ DialogStep([dialog EXCEPT !.isOpen = IF submission'.onDismiss THEN FALSE ELSE @,
                                 !.isSubmitting = FALSE])
    /\ UNCHANGED <<deleting, lastCheck, outsideDialog>>

\* checkDuplicateAction or createWarning rejects: the catch and the finally
SubmissionRejects ==
    /\ submission.phase \in {"checking", "creating"}
    /\ submission' = submissionFailed(submission)
    /\ DialogStep([dialog EXCEPT !.isOpen = IF submission'.onDismiss THEN FALSE ELSE @,
                                 !.isSubmitting = FALSE])
    /\ UNCHANGED <<deleting, lastCheck, outsideDialog>>

\* the user clicks Cancel in the duplicate warning
CancelDuplicateWarning ==
    /\ dialog.isOpen
    /\ dialog.showDuplicateWarning
    /\ dialog.existingAction # ""
    /\ dialog' = [dialog EXCEPT !.showDuplicateWarning = FALSE]
    /\ UNCHANGED <<submission, deleting, recommendationFetches, lastCheck, outsideDialog>>

\* the user clicks Delete Existing Action: handleDeleteExisting up to its await
HandleDeleteExisting ==
    /\ dialog.isOpen
    /\ dialog.showDuplicateWarning
    /\ dialog.existingAction # ""
    /\ ~dialog.isSubmitting
    /\ deleting' = TRUE
    /\ dialog' = [dialog EXCEPT !.isSubmitting = TRUE]
    /\ UNCHANGED <<submission, recommendationFetches, lastCheck, outsideDialog>>

\* deleteAction resolves
DeleteResolves ==
    /\ deleting
    /\ deleting' = FALSE
    /\ dialog' = [dialog EXCEPT !.showDuplicateWarning = FALSE, !.existingAction = "",
                                !.isSubmitting = FALSE]
    /\ UNCHANGED <<submission, recommendationFetches, lastCheck, outsideDialog>>

\* deleteAction rejects
DeleteRejects ==
    /\ deleting
    /\ deleting' = FALSE
    /\ dialog' = [dialog EXCEPT !.isSubmitting = FALSE]
    /\ UNCHANGED <<submission, recommendationFetches, lastCheck, outsideDialog>>

\* renderEmployeeGrid renders the Monthly Results cell of the row
RenderMonthlyResults ==
    /\ ~gridScore.shown
    /\ gridScore' = monthlyResultsCell(groupByWeek(rawData), rowAgent)
    /\ UNCHANGED <<rawData, rowAgent, dialogResults, outsideGrid>>

\* the user clicks the recommendations button of the row
HandleViewRecommendations ==
    /\ ~dialogResults.called
    /\ dialogResults' = viewedMonthlyResults(rawData, Given(<<>>), rowAgent)
    /\ UNCHANGED <<rawData, rowAgent, gridScore, outsideGrid>>

NextScoring == CalculatePerformanceMetrics
NextCompliance == CalculateAgentMonthlyResults \/ GenerateRecommendation
NextFlags == NormalizeFlag
NextAuth == EnterDashboard \/ GoToWelcome \/ RunEffects \/ AuthResolve
NextPhoto == GetEmployeePhoto \/ PhotoFetched \/ ClearPhotoCache
NextName == EmployeeList \/ RenderEmployeeGrid
NextAuthz == AuthenticateUser
NextPopover ==
    \/ HandleClientChange
    \/ HandleCategoryChange
    \/ HandleTaskChange
    \/ HandleClearFilters
    \/ PopoverMonthChange
    \/ CategoriesResolve
    \/ CategoriesReject
    \/ TasksResolve
    \/ TasksReject
NextDialog ==
    \/ OpenDialog
    \/ DismissDialog
    \/ SelectEmployee
    \/ SelectWeekRange
    \/ SelectActionType
    \/ TypeNotes
    \/ RecommendationResolves
    \/ RecommendationRejects
    \/ HandleSubmit
    \/ DuplicateCheckResolves
    \/ CreateWarningResolves
    \/ SubmissionRejects
    \/ CancelDuplicateWarning
    \/ HandleDeleteExisting
    \/ DeleteResolves
    \/ DeleteRejects
NextGrid == RenderMonthlyResults \/ HandleViewRecommendations
NextLoading ==
    \/ FetchFiltersResolves
    \/ FetchFiltersRejects
    \/ SelectMonth
    \/ SelectYear
    \/ ActionSubmitted
    \/ LoadDataResolves
    \/ LoadDataRejects

SpecScoring == InitScoring /\ [][NextScoring]_vars
SpecCompliance == InitCompliance /\ [][NextCompliance]_vars
SpecFlags == InitFlags /\ [][NextFlags]_vars
SpecAuth == InitAuth /\ [][NextAuth]_vars
SpecLoading == InitLoading /\ [][NextLoading]_vars
SpecPhoto == InitPhoto /\ [][NextPhoto]_vars
SpecName == InitName /\ [][NextName]_vars
SpecAuthz == InitAuthz /\ [][NextAuthz]_vars
SpecPopover == InitPopover /\ [][NextPopover]_vars
SpecDialog == InitDialog /\ [][NextDialog]_vars
SpecGrid == InitGrid /\ [][NextGrid]_vars

---------------------------------------------------------------------------
(* Status classification *)

\* the bands in the order of the percentage line
BandRank(status) ==
    CASE status = "Critical" -> 1
      [] status = "Low" -> 2
      [] status = "Normal" -> 3
      [] status = "Good" -> 4
      [] status = "Great" -> 5

\* each of the five bands of each metric holds some score
AllBandsMet ==
    \A s \in PerformanceStatus :
        /\ \E x \in Scores : getProductionStatus(x) = s
        /\ \E x \in Scores : getQAStatus(x) = s

C9_WorstStatus ==
    metrics.called =>
        LET a == metrics.productionStatus
            b == metrics.qaStatus
            worse(x, y) == BandRank(x) < BandRank(y)
        IN /\ getWorstStatus(a, b) = getWorstStatus(b, a)
           /\ getWorstStatus(a, a) = a
           /\ getWorstStatus(b, b) = b
           /\ (a = "Critical" \/ b = "Critical") => metrics.overallStatus = "Critical"
           /\ metrics.overallStatus = (IF worse(a, b) THEN a ELSE b)
           /\ metrics.overallStatus = getWorstStatus(a, b)

C9_Witness ==
    /\ metrics.called
    /\ metrics.productionStatus = "Great"
    /\ metrics.qaStatus = "Critical"
    /\ metrics.overallStatus = "Critical"

---------------------------------------------------------------------------
(* Compliance and recommendation *)

Flagged == {"Critical", "Low"}

\* the rows of the action log passed, none when it is omitted
RowsPassed == IF actionLog.given THEN actionLog.rows ELSE <<>>
MatchingRows == {i \in 1..Len(RowsPassed) : RowsPassed[i].agent_email = agentEmail}

\* C4: with 0 <= compliantWeeks <= totalWeeks and actionCount >= 0,
\* generateRecommendation follows the five-rule table on nonCompliant =
\* totalWeeks - compliantWeeks: 0 -> No Action Required, not critical; 1 with no
\* action -> Level 1, not critical; >= 2 with no action -> Level 2, critical;
\* >= 2 with an action -> Level 3, critical; otherwise Review Required, critical.
C4_RecommendationTable ==
    recommendation.called =>
        LET n == monthlyResults.totalWeeks - monthlyResults.compliantWeeks
            a == monthlyResults.actionCount
            is(action, critical) ==
                recommendation.action = action /\ recommendation.isCritical = critical
        IN /\ 0 <= monthlyResults.compliantWeeks
           /\ monthlyResults.compliantWeeks <= monthlyResults.totalWeeks
           /\ a >= 0
           /\ IF n = 0 THEN is("No Action Required", FALSE)
              ELSE IF n = 1 /\ a < 1 THEN is("Level 1: Focused Coaching", FALSE)
              ELSE IF n >= 2 /\ a < 1 THEN is("Level 2: Written Warning Required", TRUE)
              ELSE IF n >= 2 /\ a >= 1 THEN is("Level 3: Final Warning / Escalation", TRUE)
              ELSE is("Review Required", TRUE)

\* two non-compliant weeks and one action logged
C4_Witness ==
    /\ recommendation.called
    /\ monthlyResults.totalWeeks - monthlyResults.compliantWeeks = 2
    /\ monthlyResults.actionCount = 1
    /\ recommendation.action = "Level 3: Final Warning / Escalation"
    /\ recommendation.isCritical

\* C5: the fallback 'Review Required' (critical) is returned exactly when
\* nonCompliant = 1 and actionCount >= 1.
C5_FallbackExactly ==
    recommendation.called =>
        LET n == monthlyResults.totalWeeks - monthlyResults.compliantWeeks
            a == monthlyResults.actionCount
        IN /\ recommendation.action = "Review Required" <=> (n = 1 /\ a >= 1)
           /\ recommendation.action = "Review Required" => recommendation.isCritical

C5_Witness ==
    /\ recommendation.called
    /\ monthlyResults.totalWeeks = 3
    /\ monthlyResults.compliantWeeks = 2
    /\ monthlyResults.actionCount = 1
    /\ recommendation.action = "Review Required"

\* C6: a week-group is counted compliant iff no record in it has flag_qa or
\* flag_prod equal to 'Critical' or 'Low'; compliantWeeks is the number of such
\* groups and totalWeeks the number of week-groups in the map.
C6_CompliantWeeks ==
    monthlyResults.called =>
        LET clean(w) ==
                \A i \in 1..Len(agentWeeksData[w]) :
                    /\ agentWeeksData[w][i].flag_qa \notin Flagged
                    /\ agentWeeksData[w][i].flag_prod \notin Flagged
        IN /\ monthlyResults.compliantWeeks =
                Cardinality({w \in DOMAIN agentWeeksData : clean(w)})
           /\ monthlyResults.totalWeeks = Cardinality(DOMAIN agentWeeksData)

\* a group flagged only by flag_prod = 'Low', a group whose second record is
\* flagged, and a group whose flags differ from the labels in case only
C6_Witness ==
    /\ monthlyResults.called
    /\ DOMAIN agentWeeksData = {1, 2, 3}
    /\ agentWeeksData[1] = <<PerformanceData("Great", "Low")>>
    /\ agentWeeksData[2] = <<Ok, PerformanceData("Low", "Good")>>
    /\ agentWeeksData[3] = <<PerformanceData("critical", "LOW")>>
    /\ monthlyResults.compliantWeeks = 1
    /\ monthlyResults.totalWeeks = 3

\* the week map without week w, and with a compliant group added as week w
WithoutWeek(w) == [x \in DOMAIN agentWeeksData \ {w} |-> agentWeeksData[x]]
WithWeek(w) ==
    [x \in DOMAIN agentWeeksData \cup {w} |->
        IF x = w THEN <<Ok>> ELSE agentWeeksData[x]]

\* C7: actionCount is the number of action-log rows whose agent_email equals
\* the agent's email, whatever their action_date and whatever weeks are in the
\* map; removing or adding a week-group leaves it unchanged.
C7_ActionCountByAgentOnly ==
    monthlyResults.called =>
        /\ monthlyResults.actionCount = Cardinality(MatchingRows)
        /\ \A w \in Weeks :
            /\ calculateAgentMonthlyResults(WithoutWeek(w), agentEmail, actionLog).actionCount
                = monthlyResults.actionCount
            /\ calculateAgentMonthlyResults(WithWeek(w), agentEmail, actionLog).actionCount
                = monthlyResults.actionCount

\* two rows of the agent, one dated outside the month and one in week 1, and
\* week 1 not among the weeks of the map
C7_Witness ==
    /\ monthlyResults.called
    /\ actionLog = Given(<<ActionLog("ana@corp.com", 0), ActionLog("ana@corp.com", 1)>>)
    /\ DOMAIN agentWeeksData = {2}
    /\ monthlyResults.actionCount = 2

\* C8: on an empty week map calculateAgentMonthlyResults returns
\* compliantWeeks = 0 and totalWeeks = 0, and actionCount is the number of rows
\* matching the agent's email, 0 when the action log is omitted.
C8_EmptyWeekMap ==
    (monthlyResults.called /\ DOMAIN agentWeeksData = {}) =>
        /\ monthlyResults.compliantWeeks = 0
        /\ monthlyResults.totalWeeks = 0
        /\ actionLog.given =>
            monthlyResults.actionCount =
                Cardinality({i \in 1..Len(actionLog.rows) :
                    actionLog.rows[i].agent_email = agentEmail})
        /\ ~actionLog.given => monthlyResults.actionCount = 0

C8_Witness ==
    /\ monthlyResults.called
    /\ DOMAIN agentWeeksData = {}
    /\ actionLog = Given(<<ActionLog("ben@corp.com", 1), ActionLog("ana@corp.com", 1)>>)
    /\ monthlyResults = [called |-> TRUE, compliantWeeks |-> 0, totalWeeks |-> 0,
                         actionCount |-> 1]

---------------------------------------------------------------------------
(* normalizeFlag *)

RecognisedWords ==
    {kw_great, kw_excellent, kw_good, kw_normal, kw_ok, kw_low, kw_warning,
     kw_critical, kw_poor}

\* the flag is a string that, trimmed and in lower case, holds a recognised word
Recognised(flag) ==
    /\ flag.kind = "string"
    /\ \E w \in RecognisedWords : includes(toLowerCase(trim(flag.chars)), w)

---------------------------------------------------------------------------
(* App and useUserRole *)

\* the authentication started for the latest click has ended and loadUser
\* applied its result to the hook of App
CurrentAuthDone == lastAuth.click = clicks /\ lastAuth.status = "done"

AppCalls == {c \in pendingCalls : c.inst = "App"}

\* C12: when the authentication of the current click ended without an authorized
\* user (no user, an exception, or a user without qualifying title or
\* auto-approved email), useUserRole holds isAuthorized = false and role
\* 'Unauthorized' and the App is not in 'authorized'.
C12_FailureIsDenied ==
    (CurrentAuthDone /\ ~lastAuth.isAuthorized /\ ~EffectsPending) =>
        /\ hooks["App"].isAuthorized = FALSE
        /\ hooks["App"].role = "Unauthorized"
        /\ appState # "authorized"

\* C17: the App leaves 'authenticating' only when the authentication started
\* for the current click has ended, and then goes to 'authorized' or 'denied'
\* as that authentication's isAuthorized says.
C17_LeavesOnCurrentAuth ==
    [][(appState = "authenticating" /\ appState' # "authenticating") =>
          /\ CurrentAuthDone
          /\ appState' = IF lastAuth.isAuthorized THEN "authorized" ELSE "denied"]_vars

\* C18: once the authentication of the current click has resolved with
\* isAuthorized = true and the effects have run, the App shows the dashboard
\* (until the user returns to the welcome screen).
C18_AuthorizedReachesDashboard ==
    (CurrentAuthDone /\ lastAuth.isAuthorized /\ ~EffectsPending /\ appState # "welcome") =>
        appState = "authorized"

\* C19: at most one authenticateUser call started by the useUserRole of App is
\* in flight.
C19_OneCallInFlight == Cardinality(AppCalls) <= 1

\* C20: in each useUserRole, canTakeAction only if isAuthorized and the role is
\* Director or AVP, and all four permissions false while the role is null or
\* 'Unauthorized'; the same for the canTakeAction the dashboard computes from
\* the role of its hook for the Take Action button.
C20_TakeActionOnlyDirectorAVP ==
    /\ \A i \in Instances :
        /\ permissions(hooks[i].role).canTakeAction =>
               hooks[i].isAuthorized /\ hooks[i].role \in {"Director", "AVP"}
        /\ hooks[i].role \in {NoRole, "Unauthorized"} =>
               permissions(hooks[i].role) = NoPermissions
    /\ canTakeAction(hooks["View"].role) =>
           hooks["View"].isAuthorized /\ hooks["View"].role \in {"Director", "AVP"}

\* the dashboard is shown to an assistant vice president, Take Action enabled
C20_Witness ==
    /\ appState = "authorized"
    /\ hooks["View"].role = "AVP"
    /\ hooks["View"].isAuthorized
    /\ canTakeAction(hooks["View"].role)
    /\ permissions(hooks["View"].role).canTakeAction

---------------------------------------------------------------------------
(* UnderperformingView: loading *)

\* C13: after a fetch of the view failed and until the user changes the filters
\* or submits an action, the error message is set, loading is cleared, and no
\* new request has been issued.
C13_FailureSurfacesNoRetry ==
    failure.failed =>
        /\ error # NoError
        /\ loading = FALSE
        /\ ~failure.issued

\* C14: the data shown are those of the loadData response that arrived last,
\* whether or not its request answers the selected filters: a response to a
\* superseded request is neither dropped nor ordered.
C14_LastResponseWins == displayed = lastSuccess

\* no request in flight, nothing failed, and the data shown were fetched for
\* other filters than the selected ones
C14_Witness ==
    /\ dataRequests = {}
    /\ loading = FALSE
    /\ error = NoError
    /\ displayed # NoFilters
    /\ displayed # filters

---------------------------------------------------------------------------
(* The photo cache *)

\* a getEmployeePhoto call starts in this step, for an identifier in the cache
CachedCallStarts ==
    /\ photoCallsStarted' # photoCallsStarted
    /\ lastPhotoCall'.id \in DOMAIN photoCache

\* a call for a cached identifier returns the cached value and asks no backend;
\* null is never stored; entries leave the cache only when it is emptied
CacheHitsAndLosses ==
    /\ CachedCallStarts =>
        /\ lastPhotoCall'.returned = photoCache[lastPhotoCall'.id]
        /\ photoCalls' = photoCalls
        /\ photoCache' = photoCache
    /\ \A id \in DOMAIN photoCache' : photoCache'[id] # NoPhoto
    /\ \A id \in DOMAIN photoCache : id \notin DOMAIN photoCache' => photoCache' = EmptyCache

\* C15 as stated: a call for a cached identifier returns the cached value
\* without a backend request, null is never stored, entries leave the cache
\* only when clearPhotoCache empties it, and no entry is ever replaced.
C15_NeverReplaced ==
    [][/\ CacheHitsAndLosses
       /\ \A id \in DOMAIN photoCache :
              id \in DOMAIN photoCache' => photoCache'[id] = photoCache[id]]_vars

\* C15 amended: a call for a cached identifier returns the cached value without
\* a backend request, null is never stored, entries leave the cache only when
\* clearPhotoCache empties it, and an entry is replaced only when a call for the
\* same identifier that had missed the cache ends with a photo.
C15_ReplacedOnlyByPendingCall ==
    [][/\ CacheHitsAndLosses
       /\ \A id \in DOMAIN photoCache :
              (id \in DOMAIN photoCache' /\ photoCache'[id] # photoCache[id]) =>
                  \E call \in photoCalls \ photoCalls' : call.id = id]_vars

\* a call hit the cache and was given a photo that had replaced the one first
\* stored for the identifier
C15_Witness ==
    /\ lastPhotoCall.hit
    /\ lastPhotoCall.id \in DOMAIN photoCache
    /\ lastPhotoCall.returned = photoCache[lastPhotoCall.id]
    /\ photoCache[lastPhotoCall.id] # firstStored[lastPhotoCall.id]

---------------------------------------------------------------------------
(* The display name of an agent *)

\* the text before the '@' of the agent's email
LocalPart == Str(splitAtFirst(firstRecord.agent_email.chars))

\* C16 as stated: for a record without agent_name, the name in the employee
\* list and the name in the grid row are the local part of the agent's email.
C16_FallsBackToLocalPart ==
    ~Truthy(firstRecord.agent_name) =>
        /\ listName # Undef => listName = LocalPart
        /\ gridName # Undef => gridName = LocalPart

\* C16 amended: for a record without agent_name, the name in the employee list
\* and the name in the grid row are the local part of the agent's email, or
\* 'Unknown Agent' when that local part is empty.
C16_LocalPartOrUnknown ==
    ~Truthy(firstRecord.agent_name) =>
        LET expected == IF LocalPart.chars # <<>> THEN LocalPart ELSE UnknownAgent IN
        /\ listName # Undef => listName = expected
        /\ gridName # Undef => gridName = expected

\* an agent without agent_name is shown by the local part of the email in
\* both places
C16_Witness ==
    /\ firstRecord.agent_name = Null
    /\ listName = Str(<<"a", "n", "a", ".", "c", "r", "u", "z">>)
    /\ gridName = listName

---------------------------------------------------------------------------
(* Authorization and role mapping *)

LeadershipRoles ==
    {"AVP", "Director", "Manager", "Assistant Manager", "Supervisor", "Team Lead"}

\* for every email and job title that isUserAuthorized accepts, getUserRole
\* returns a leadership role (computed once: it reads no variable)
AuthorizedAreLeaders ==
    \A e \in Emails, t \in JobTitles :
        isUserAuthorized(e, t) => getUserRole(e, t) \in LeadershipRoles

\* C21: whenever isUserAuthorized accepts an email and job title, getUserRole
\* maps them to a leadership role, never to 'Agent' or 'Unauthorized'; and
\* authenticateUser returns role 'Unauthorized' exactly when isAuthorized is
\* false.
C21_AuthorizedHaveLeadershipRole ==
    /\ AuthorizedAreLeaders
    /\ authzResult.called =>
        /\ authzResult.isAuthorized => authzResult.role \in LeadershipRoles
        /\ authzResult.role = "Unauthorized" <=> ~authzResult.isAuthorized
        /\ authzResult.role \in UserRole

\* ' LEAD GENERATION SPECIALIST ' is accepted, through the bare 'lead', and
\* mapped to Team Lead
C21_Witness ==
    /\ authzResult.called
    /\ currentUser.kind = "user"
    /\ toLowerCase(trim(currentUser.jobTitle.chars))
           = <<"l", "e", "a", "d", " ", "g", "e", "n", "e", "r", "a", "t", "i", "o", "n", " ",
               "s", "p", "e", "c", "i", "a", "l", "i", "s", "t">>
    /\ ~isAutoApproved(currentUser.email)
    /\ authzResult.isAuthorized
    /\ authzResult.role = "Team Lead"

---------------------------------------------------------------------------
(* Claims about the filter popover *)

\* C22: each of the four handlers of the popover changes the filters as said:
\* picking a client sets the client and clears category and task; picking a
\* category sets the category, clears the task and keeps the client; picking a
\* task changes the task only; Clear Filters removes client, category and task;
\* and none of the four changes month or year.
C22_HandlersCascade ==
    [][lastHandler' # lastHandler =>
        LET h == lastHandler'
            before == popFilters
            after == popFilters'
        IN /\ h.hadTask = (before.task # "")
           /\ after.month = before.month
           /\ after.year = before.year
           /\ h.name = "client" =>
                 after.client = h.value /\ after.category = "" /\ after.task = ""
           /\ h.name = "category" =>
                 /\ after.category = h.value
                 /\ after.task = ""
                 /\ after.client = before.client
           /\ h.name = "task" =>
                 /\ after.task = h.value
                 /\ after.category = before.category
                 /\ after.client = before.client
           /\ h.name = "clear" =>
                 after.client = "" /\ after.category = "" /\ after.task = ""]_vars

\* a category was picked while a task was set, and the task is gone
C22_Witness ==
    /\ lastHandler.name = "category"
    /\ lastHandler.value # ""
    /\ lastHandler.hadTask
    /\ popFilters.category = lastHandler.value
    /\ popFilters.task = ""
    /\ popFilters.client # ""

\* C23: in every reachable state a task is set only if a category is set, a
\* category only if a client is set, and, once no fetch of the list is in
\* flight, the category is one of the categories fetched for the selected
\* client and the task one of the tasks fetched for the selected client and
\* category.
C23_FiltersFormHierarchy ==
    /\ popFilters.task # "" => popFilters.category # ""
    /\ popFilters.category # "" => popFilters.client # ""
    /\ popFilters.category # "" /\ categoryFetches = {} =>
          /\ popFilters.category \in Range(availableCategories)
          /\ categoriesFor = popFilters.client
    /\ popFilters.task # "" /\ taskFetches = {} =>
          /\ popFilters.task \in Range(availableTasks)
          /\ tasksFor = <<popFilters.client, popFilters.category>>

---------------------------------------------------------------------------
(* Claims about TakeActionDialog *)

\* C24: in handleSubmit, createWarning is called only with employee, week,
\* action type and notes all set and only after checkDuplicateAction, asked
\* for the same employee and week, replied that no action exists; when it
\* replies that one exists, no warning is created, and the dialog is left as
\* open as it was, with the duplicate warning shown; onActionSuccess and
\* onDismiss are called, both, only once createWarning has succeeded, and
\* neither on a failure.
C24_SubmitCreatesAfterCheck ==
    /\ [](/\ submission.phase \in {"creating", "created", "createFailed"} =>
               /\ submission.employee # ""
               /\ submission.week # ""
               /\ submission.actionType \in WarningType
               /\ submission.notes # ""
               /\ lastCheck = [asked |-> TRUE, exists |-> FALSE,
                               employee |-> submission.employee,
                               week |-> submission.week]
          /\ submission.phase = "duplicate" => lastCheck.asked /\ lastCheck.exists
          /\ (submission.onActionSuccess \/ submission.onDismiss) =>
                submission.phase = "created"
          /\ submission.phase = "created" =>
                submission.onActionSuccess /\ submission.onDismiss)
    /\ [][/\ submission.phase = "checking" /\ submission'.phase = "duplicate" =>
                /\ dialog'.isOpen = dialog.isOpen
                /\ dialog'.showDuplicateWarning
                /\ dialog'.existingAction # ""
                /\ ~dialog'.isSubmitting
          /\ submission.phase = "creating" /\ submission'.phase = "created" =>
                ~dialog'.isOpen
          /\ /\ submission.phase \in {"checking", "creating"}
             /\ submission'.phase \in {"checkFailed", "createFailed"}
             => dialog'.isOpen = dialog.isOpen]_vars

\* a warning was created after the check found no action, both callbacks were
\* called and the dialog is closed
C24_Witness ==
    /\ submission.phase = "created"
    /\ submission.onActionSuccess
    /\ submission.onDismiss
    /\ lastCheck.asked
    /\ ~lastCheck.exists
    /\ lastCheck.employee = submission.employee
    /\ submission.notes # ""
    /\ ~dialog.isOpen

\* C25: when the dialog is opened again it shows nothing of the session
\* before: no employee, week, action type or notes, no recommendation or
\* recommendation error, and no duplicate warning.
C25_ReopensClean ==
    [][~dialog.isOpen /\ dialog'.isOpen =>
          /\ dialog'.selectedEmployee = ""
          /\ dialog'.selectedWeekRange = ""
          /\ dialog'.actionType = ""
          /\ dialog'.actionNotes = ""
          /\ dialog'.recommendation = <<>>
          /\ dialog'.recommendationError = ""
          /\ ~(dialog'.showDuplicateWarning /\ dialog'.existingAction # "")]_vars

---------------------------------------------------------------------------
(* Claims about the Monthly Results column *)

\* C26: for every row of the employee grid, the compliantWeeks and totalWeeks
\* of the Score shown in the Monthly Results column are those
\* calculateAgentMonthlyResults computes for the agent's weeks, and those the
\* Recommendations dialog is opened with for the same data.
C26_ScoreMatchesMonthlyResults ==
    LET weeksData == groupByWeek(rawData)[rowAgent]
        results == calculateAgentMonthlyResults(weeksData, rowAgent, Given(<<>>))
    IN /\ gridScore.shown =>
              /\ gridScore.compliantWeeks = results.compliantWeeks
              /\ gridScore.totalWeeks = results.totalWeeks
       /\ gridScore.shown /\ dialogResults.called =>
              /\ gridScore.compliantWeeks = dialogResults.compliantWeeks
              /\ gridScore.totalWeeks = dialogResults.totalWeeks

====
